---- MODULE Spec2Model ----
(***************************************************************************)
(* X.509 path-validation policy (cryptography-x509-validation, policy/     *)
(* mod.rs) and the chain search that drives it.                            *)
(*                                                                         *)
(* A certificate is a record of the fields the policy reads.  Extension    *)
(* values are decoded lazily, on use, so a certificate may carry a value   *)
(* that does not decode.                                                   *)
(*                                                                         *)
(* PKCS#7 (src/rust/src/pkcs7.rs): S/MIME canonicalization, EnvelopedData  *)
(* encryption and decryption, and the attributes of SignedData.  A byte    *)
(* string is a sequence of one-character strings.                          *)
(***************************************************************************)
EXTENDS Integers, Sequences, FiniteSets, TLC

VARIABLES
    policy,       \* the Policy under which everything is checked
    cert,         \* policy run: the certificate handed to permits_* / the issuer
    child,        \* policy run: the child certificate handed to valid_issuer
    depth,        \* policy run: current_depth argument
    op,           \* policy run: the operation applied ("none" before)
    res,          \* policy run: its Result
    ops_calls,    \* policy run: CryptoOps calls made, in order
    leaf,         \* chain run: the leaf certificate
    inters,       \* chain run: intermediates, in insertion order
    store,        \* chain run: trust anchors, in insertion order
    pc,           \* chain run: "start", "search", "done"
    stack,        \* chain run: DFS frames [cert, depth, cands, last_err]
    outcome,      \* chain run: [ok, chain, err, context]
    tried,        \* chain run: the valid_issuer calls made so far, in order
    fn,           \* function run: the function applied ("none" before)
    arg,          \* function run: its arguments
    out           \* function run: what it returned

vars == <<policy, cert, child, depth, op, res, ops_calls,
          leaf, inters, store, pc, stack, outcome, tried, fn, arg, out>>

policyVars == <<cert, child, depth, op, res, ops_calls>>
chainVars == <<leaf, inters, store, pc, stack, outcome, tried>>
fnVars == <<fn, arg, out>>

-----------------------------------------------------------------------------
(* Bounds of the model *)

\* largest max_chain_depth and current_depth explored
MaxDepth == 2
\* how many fields of a well-formed certificate are perturbed at once
MaxDeviations == 2
\* longest intermediate pool
MaxPool == 2
\* deepest recursion of the chain search the model follows
MaxStack == 6

-----------------------------------------------------------------------------
(* Results *)

Ok == "Ok"
None == "None"

\* `result?; rest`: the error of result, or else what the rest comes to
Try(result, rest) == IF result # Ok THEN result ELSE rest

\* asn1::ParseError converted into a ValidationError
ErrParse == "ParseError"
ErrDuplicateExt == "DuplicateExtensions"
ErrVersion == "certificate must be an X509v3 certificate"
ErrSigAlgMismatch == "mismatch between signatureAlgorithm and SPKI algorithm"
ErrSerialLen == "certificate must have a serial between 1 and 20 octets"
ErrSerialNeg == "certificate serial number cannot be negative"
ErrIssuerEmpty == "certificate must have a non-empty Issuer"
ErrGenTime == "validity dates before generalized date cutoff must be UtcTime"
ErrNotValidNow == "cert is not valid at validation time"
ErrUnaccounted == "certificate contains unaccounted-for critical extensions"
ErrPathLen == "path length constraint violated"
ErrForbiddenPk == "Forbidden public key algorithm"
ErrForbiddenSig == "Forbidden signature algorithm"
ErrIssuerKey == "issuer has malformed public key"
ErrSigMismatch == "signature does not match"

\* errors of the extension policies
ErrExtRequired == "ExtensionRequired"
ErrExtForbidden == "ExtensionForbidden"
ErrCriticality == "CriticalityMismatch"
ErrAia == "AIA: bad access description"
ErrEku == "EkuMissing"
ErrAki == "AKI: missing keyIdentifier"
ErrKeyUsage == "KeyUsage: keyCertSign not asserted"
ErrBcNotCa == "BasicConstraints: cA must be TRUE"
ErrBcCa == "BasicConstraints: cA must be FALSE"
ErrNameConstraints == "NameConstraints: malformed subtree"
ErrSubjectMismatch == "SubjectMismatch"

\* errors of the chain search
ErrMaxDepth == "MaxChainDepthExceeded"
ErrNoIssuer == "NoTrustedRoot"

\* the messages mod.rs wraps in ValidationError::Other
OtherMessages ==
    { ErrVersion, ErrSigAlgMismatch, ErrSerialLen, ErrSerialNeg, ErrIssuerEmpty,
      ErrGenTime, ErrNotValidNow, ErrUnaccounted, ErrPathLen, ErrForbiddenPk,
      ErrForbiddenSig, ErrIssuerKey, ErrSigMismatch }

\* the variant of ValidationError an error is: Other for the messages above,
\* and for every other error the kind it is named by
ErrorKind(e) == IF e \in OtherMessages THEN "Other" ELSE e

-----------------------------------------------------------------------------
(* Object identifiers *)

SUBJECT_DIRECTORY_ATTRIBUTES_OID == "subjectDirectoryAttributes"
AUTHORITY_INFORMATION_ACCESS_OID == "authorityInfoAccess"
EXTENDED_KEY_USAGE_OID == "extendedKeyUsage"
AUTHORITY_KEY_IDENTIFIER_OID == "authorityKeyIdentifier"
SUBJECT_KEY_IDENTIFIER_OID == "subjectKeyIdentifier"
KEY_USAGE_OID == "keyUsage"
BASIC_CONSTRAINTS_OID == "basicConstraints"
NAME_CONSTRAINTS_OID == "nameConstraints"
POLICY_CONSTRAINTS_OID == "policyConstraints"
SUBJECT_ALTERNATIVE_NAME_OID == "subjectAltName"
\* an extension no policy knows (e.g. a private-arc OID)
UNKNOWN_OID == "1.3.6.1.4.1.99999.1"

EKU_SERVER_AUTH_OID == "serverAuth"
EKU_CLIENT_AUTH_OID == "clientAuth"

OIDs == { SUBJECT_DIRECTORY_ATTRIBUTES_OID, AUTHORITY_INFORMATION_ACCESS_OID,
          EXTENDED_KEY_USAGE_OID, AUTHORITY_KEY_IDENTIFIER_OID,
          SUBJECT_KEY_IDENTIFIER_OID, KEY_USAGE_OID, BASIC_CONSTRAINTS_OID,
          NAME_CONSTRAINTS_OID, POLICY_CONSTRAINTS_OID,
          SUBJECT_ALTERNATIVE_NAME_OID, UNKNOWN_OID }

-----------------------------------------------------------------------------
(* Algorithm identifiers: the variant name, with "+NULL" where the NULL     *)
(* parameter is present (Some(())) and nothing where it is absent (None).   *)

WEBPKI_PERMITTED_SPKI_ALGORITHMS ==
    { "Rsa+NULL", "Ec:secp256r1", "Ec:secp384r1", "Ec:secp521r1" }

\* the allow-list with every entry in both forms, with and without NULL
WEBPKI_PERMITTED_SIGNATURE_ALGORITHMS_either_form ==
    { "RsaWithSha256+NULL", "RsaWithSha384+NULL", "RsaWithSha512+NULL",
      "RsaWithSha256", "RsaWithSha384", "RsaWithSha512",
      "RsaPss:sha256:mgf1sha256:32:1", "RsaPss:sha384:mgf1sha384:48:1",
      "RsaPss:sha512:mgf1sha512:64:1",
      "EcDsaWithSha256", "EcDsaWithSha384", "EcDsaWithSha512",
      "EcDsaWithSha256+NULL", "EcDsaWithSha384+NULL", "EcDsaWithSha512+NULL" }

WEBPKI_PERMITTED_SIGNATURE_ALGORITHMS ==
    { "RsaWithSha256+NULL", "RsaWithSha384+NULL", "RsaWithSha512+NULL",
      "RsaPss:sha256:mgf1sha256:32:1", "RsaPss:sha384:mgf1sha384:48:1",
      "RsaPss:sha512:mgf1sha512:64:1",
      "EcDsaWithSha256", "EcDsaWithSha384", "EcDsaWithSha512" }

-----------------------------------------------------------------------------
(* Time.  A DateTime is a count of seconds; the model's calendar puts two   *)
(* of them in each year, starting in 2048.                                  *)

Year(dt) == 2048 + (dt \div 2)

UtcTime(dt) == [kind |-> "UtcTime", dt |-> dt]

UTC_TIME_LAST_YEAR == 2049

\* asn1::UtcTime::new without its test of the year
UtcTime_new_unchecked(dt) == << UtcTime(dt) >>

\* asn1::UtcTime::new: Ok(time) as << time >>, Err as <<>>.  (The constructor
\* also refuses the years before 1950, which the model's calendar lacks.)
UtcTime_new(dt) ==
    IF Year(dt) > UTC_TIME_LAST_YEAR THEN <<>> ELSE << UtcTime(dt) >>
GeneralizedTime(dt) == [kind |-> "GeneralizedTime", dt |-> dt]
as_datetime(time) == time.dt

GENERALIZED_DATE_CUTOFF_YEAR == 2050

\* permits_validity_date comparing with <= where the code compares with <
permits_validity_date_inclusive(validity_date) ==
    IF /\ validity_date.kind = "GeneralizedTime"
       /\ Year(as_datetime(validity_date)) <= GENERALIZED_DATE_CUTOFF_YEAR
    THEN ErrGenTime
    ELSE Ok

permits_validity_date(validity_date) ==
    IF /\ validity_date.kind = "GeneralizedTime"
       /\ Year(as_datetime(validity_date)) < GENERALIZED_DATE_CUTOFF_YEAR
    THEN ErrGenTime
    ELSE Ok

-----------------------------------------------------------------------------
(* Names.  A text is the sequence of its characters; a DNSName is the text  *)
(* it was made from.                                                       *)

LowercaseLetters == << "a", "b", "c", "d", "e", "f", "g", "h", "i", "j", "k", "l", "m", "n",
                      "o", "p", "q", "r", "s", "t", "u", "v", "w", "x", "y", "z" >>
UppercaseLetters == << "A", "B", "C", "D", "E", "F", "G", "H", "I", "J", "K", "L", "M", "N",
                      "O", "P", "Q", "R", "S", "T", "U", "V", "W", "X", "Y", "Z" >>
Digits == { "0", "1", "2", "3", "4", "5", "6", "7", "8", "9" }

\* characters outside ASCII, each named by its code point
NonAscii == { "U+26A0", "U+FE0F" }

\* char::is_whitespace, on the characters of the model
is_whitespace(c) == c \in { " ", "\t" }

is_ascii(c) == c \notin NonAscii

is_ascii_alphanumeric(c) ==
    \/ c \in Digits
    \/ \E i \in 1..26 : c = LowercaseLetters[i] \/ c = UppercaseLetters[i]

to_ascii_lowercase(c) ==
    IF \E i \in 1..26 : c = UppercaseLetters[i]
    THEN LowercaseLetters[CHOOSE i \in 1..26 : c = UppercaseLetters[i]]
    ELSE c

eq_ignore_ascii_case(a, b) ==
    /\ Len(a) = Len(b)
    /\ \A i \in 1..Len(a) : to_ascii_lowercase(a[i]) = to_ascii_lowercase(b[i])

\* str::split: the pieces between the separators, empty pieces included
RECURSIVE split(_, _)
split(value, sep) ==
    IF \A i \in 1..Len(value) : value[i] # sep
    THEN << value >>
    ELSE LET k == CHOOSE i \in 1..Len(value) :
                      value[i] = sep /\ \A j \in 1..(i - 1) : value[j] # sep
         IN  << SubSeq(value, 1, k - 1) >>
                 \o split(SubSeq(value, k + 1, Len(value)), sep)

\* str::split_once: Some((before, after)) as << before, after >>, None as <<>>
split_once(value, sep) ==
    IF \A i \in 1..Len(value) : value[i] # sep
    THEN <<>>
    ELSE LET k == CHOOSE i \in 1..Len(value) :
                      value[i] = sep /\ \A j \in 1..(i - 1) : value[j] # sep
         IN  << SubSeq(value, 1, k - 1), SubSeq(value, k + 1, Len(value)) >>

\* str::strip_prefix: Some(rest) as << rest >>, None as <<>>
strip_prefix(value, prefix) ==
    IF Len(value) >= Len(prefix) /\ SubSeq(value, 1, Len(prefix)) = prefix
    THEN << SubSeq(value, Len(prefix) + 1, Len(value)) >>
    ELSE <<>>

\* asn1::IA5String::new
IA5String_new(value) ==
    IF \A i \in 1..Len(value) : is_ascii(value[i]) THEN << value >> ELSE <<>>

MAX_NAME_LEN == 253
MAX_LABEL_LEN == 63

label_ok(label) ==
    /\ ~( \/ Len(label) = 0
          \/ Len(label) > MAX_LABEL_LEN
          \/ label[1] = "-"
          \/ label[Len(label)] = "-" )
    /\ \A i \in 1..Len(label) : is_ascii_alphanumeric(label[i]) \/ label[i] = "-"

\* DNSName::new with the length test one off: a name of 254 characters passes
DNSName_new_254(value) ==
    IF \/ Len(value) = 0
       \/ \E i \in 1..Len(value) : is_whitespace(value[i])
       \/ Len(value) > MAX_NAME_LEN + 1
    THEN <<>>
    ELSE IF \E i \in 1..Len(split(value, ".")) : ~label_ok(split(value, ".")[i])
         THEN <<>>
         ELSE IA5String_new(value)

\* no label of the name is refused
labels_ok(labels) == \A i \in 1..Len(labels) : label_ok(labels[i])

\* Some(name) as << name >>, None as <<>>
DNSName_new(value) ==
    IF \/ Len(value) = 0
       \/ \E i \in 1..Len(value) : is_whitespace(value[i])
       \/ Len(value) > MAX_NAME_LEN
    THEN <<>>
    ELSE IF ~labels_ok(split(value, "."))
         THEN <<>>
         ELSE IA5String_new(value)

\* DNSName equality that compares the texts as they are
DNSName_eq_exact(a, b) == a = b

DNSName_eq(a, b) == eq_ignore_ascii_case(a, b)

DNSName_parent(name) ==
    LET halves == split_once(name, ".")
    IN  IF halves = <<>> THEN <<>> ELSE DNSName_new(halves[2])

\* DNSPattern::new taking any leading "*" for the wildcard label
DNSPattern_new_any_star(pat) ==
    IF strip_prefix(pat, << "*" >>) # <<>>
    THEN LET rest == strip_prefix(pat, << "*" >>)[1]
             n == DNSName_new(IF Len(rest) > 0 /\ rest[1] = "." THEN Tail(rest) ELSE rest)
         IN  IF n = <<>> THEN <<>> ELSE << [kind |-> "Wildcard", name |-> n[1]] >>
    ELSE LET n == DNSName_new(pat)
         IN  IF n = <<>> THEN <<>> ELSE << [kind |-> "Exact", name |-> n[1]] >>

\* Option::map(Self::Wildcard) and Option::map(Self::Exact)
map_pattern(name, kind) ==
    IF name = <<>> THEN <<>> ELSE << [kind |-> kind, name |-> name[1]] >>

DNSPattern_new(pat) ==
    IF strip_prefix(pat, << "*", "." >>) # <<>>
    THEN map_pattern(DNSName_new(strip_prefix(pat, << "*", "." >>)[1]), "Wildcard")
    ELSE map_pattern(DNSName_new(pat), "Exact")

\* DNSPattern::matches whose wildcard matches every name below the pattern's
DNSPattern_matches_any_depth(p, name) ==
    IF p.kind = "Exact"
    THEN DNSName_eq(p.name, name)
    ELSE \E k \in 1..Len(name) :
            /\ name[k] = "."
            /\ DNSName_eq(p.name, SubSeq(name, k + 1, Len(name)))

\* `match name.parent() { Some(ref parent) => pat == parent, None => false }`
matches_parent(pat, parent) ==
    IF parent = <<>> THEN FALSE ELSE DNSName_eq(pat, parent[1])

DNSPattern_matches(p, name) ==
    IF p.kind = "Exact"
    THEN DNSName_eq(p.name, name)
    ELSE matches_parent(p.name, DNSName_parent(name))

\* an address is its octets; only 4 and 16 octets make an address
IPAddress_from_bytes(b) ==
    IF Len(b) \in {4, 16} THEN << b >> ELSE <<>>

DnsSubject(labels) == [kind |-> "DNS", name |-> labels, addr |-> <<>>]
IpSubject(octets) == [kind |-> "IP", name |-> <<>>, addr |-> octets]

DnsGN(labels) == [tag |-> "DNSName", name |-> labels, addr |-> <<>>]
IpGN(octets) == [tag |-> "IPAddress", name |-> <<>>, addr |-> octets]

\* subject_alt_name_matches with map_or(true, ..) where the code has
\* map_or(false, ..)
subject_alt_name_matches_default_true(subject, general_name) ==
    IF general_name.tag = "DNSName" /\ subject.kind = "DNS"
    THEN LET p == DNSPattern_new(general_name.name)
         IN IF p = <<>> THEN TRUE ELSE DNSPattern_matches(p[1], subject.name)
    ELSE IF general_name.tag = "IPAddress" /\ subject.kind = "IP"
    THEN LET a == IPAddress_from_bytes(general_name.addr)
         IN IF a = <<>> THEN TRUE ELSE a[1] = subject.addr
    ELSE FALSE

\* `.map_or(false, |p| p.matches(name))`
pattern_matches_or_false(p, name) ==
    IF p = <<>> THEN FALSE ELSE DNSPattern_matches(p[1], name)

\* `.map_or(false, |addr| addr == *name)`
address_equals_or_false(a, name) ==
    IF a = <<>> THEN FALSE ELSE a[1] = name

subject_alt_name_matches(subject, general_name) ==
    IF general_name.tag = "DNSName" /\ subject.kind = "DNS"
    THEN pattern_matches_or_false(DNSPattern_new(general_name.name), subject.name)
    ELSE IF general_name.tag = "IPAddress" /\ subject.kind = "IP"
    THEN address_equals_or_false(IPAddress_from_bytes(general_name.addr), subject.addr)
    ELSE FALSE

Subject_matches(subject, san) ==
    \E i \in 1..Len(san) : subject_alt_name_matches(subject, san[i])

\* "test.cryptography.io"
TheName == << "t", "e", "s", "t", ".",
             "c", "r", "y", "p", "t", "o", "g", "r", "a", "p", "h", "y", ".", "i", "o" >>
\* "*.cryptography.IO"
WildcardSan == << DnsGN(<< "*", ".", "c", "r", "y",
                        "p", "t", "o", "g", "r", "a", "p", "h", "y", ".", "I", "O" >>) >>
\* "foo.bar", 127.0.0.1, "*.io"
OtherSan == << DnsGN(<< "f", "o", "o", ".", "b", "a", "r" >>), IpGN(<< 127, 0, 0, 1 >>),
               DnsGN(<< "*", ".", "i", "o" >>) >>

\* the subjects that policies verify and the name lists that certificates carry
KnownSubjects == { DnsSubject(TheName) }
KnownSans == { <<>>, WildcardSan, OtherSan }

\* the pairs of these that Subject::matches accepts, computed once
KnownMatches ==
    { p \in KnownSubjects \X KnownSans : Subject_matches(p[1], p[2]) }

\* Subject::matches, looked up for a known pair and computed for any other
subject_matches_san(subject, san) ==
    IF << subject, san >> \in KnownSubjects \X KnownSans
    THEN << subject, san >> \in KnownMatches
    ELSE Subject_matches(subject, san)

-----------------------------------------------------------------------------
(* Extensions.  cert.exts maps every OID to an Extension record; an absent  *)
(* extension has present = FALSE.  The value of a present extension either  *)
(* decodes (decodes = TRUE and the decoded fields are meaningful) or not.   *)

Absent ==
    [present |-> FALSE, critical |-> FALSE, decodes |-> FALSE,
     key_cert_sign |-> FALSE, ca |-> FALSE, path_length |-> <<>>,
     names |-> <<>>, usages |-> {}, key_identifier |-> FALSE,
     well_formed |-> FALSE]

\* a present extension whose value decodes and carries nothing of interest
Ext(critical) == [Absent EXCEPT !.present = TRUE, !.critical = critical,
                                !.decodes = TRUE, !.well_formed = TRUE]

\* a present extension whose value bytes do not decode
BadExt(critical) == [Ext(critical) EXCEPT !.decodes = FALSE, !.well_formed = FALSE]

get_extension(extensions, oid) == extensions[oid]

\* Extension::value(): the decoded value or a parse error
value_err(ext) == IF ext.decodes THEN Ok ELSE ErrParse

(* The validators of the extension policies. *)

common_authority_information_access(pol, c, ext) ==
    IF ~ext.decodes THEN ErrParse
    ELSE IF ~ext.well_formed THEN ErrAia
    ELSE Ok

common_extended_key_usage(pol, c, ext) ==
    IF ~ext.decodes THEN ErrParse
    ELSE IF pol.extended_key_usage \notin ext.usages THEN ErrEku
    ELSE Ok

ca_authority_key_identifier(pol, c, ext) ==
    IF ~ext.decodes THEN ErrParse
    ELSE IF c.signed_by # c.public_key /\ ~ext.key_identifier THEN ErrAki
    ELSE Ok

ca_key_usage(pol, c, ext) ==
    IF ~ext.decodes THEN ErrParse
    ELSE IF ~ext.key_cert_sign THEN ErrKeyUsage
    ELSE Ok

ca_basic_constraints(pol, c, ext) ==
    IF ~ext.decodes THEN ErrParse
    ELSE IF ~ext.ca THEN ErrBcNotCa
    ELSE Ok

ca_name_constraints(pol, c, ext) ==
    IF ~ext.decodes THEN ErrParse
    ELSE IF ~ext.well_formed THEN ErrNameConstraints
    ELSE Ok

ee_subject_alternative_name(pol, c, ext) ==
    IF ~ext.decodes THEN ErrParse
    ELSE IF ~subject_matches_san(pol.subject, ext.names) THEN ErrSubjectMismatch
    ELSE Ok

ee_basic_constraints(pol, c, ext) ==
    IF ~ext.decodes THEN ErrParse
    ELSE IF ext.ca THEN ErrBcCa
    ELSE Ok

RunValidator(validator, pol, c, ext) ==
    CASE validator = "common::authority_information_access" ->
            common_authority_information_access(pol, c, ext)
      [] validator = "common::extended_key_usage" ->
            common_extended_key_usage(pol, c, ext)
      [] validator = "ca::authority_key_identifier" ->
            ca_authority_key_identifier(pol, c, ext)
      [] validator = "ca::key_usage" -> ca_key_usage(pol, c, ext)
      [] validator = "ca::basic_constraints" -> ca_basic_constraints(pol, c, ext)
      [] validator = "ca::name_constraints" -> ca_name_constraints(pol, c, ext)
      [] validator = "ee::subject_alternative_name" ->
            ee_subject_alternative_name(pol, c, ext)
      [] validator = "ee::basic_constraints" -> ee_basic_constraints(pol, c, ext)
      [] OTHER -> Ok

ExtensionPolicy_present(oid, criticality, validator) ==
    [oid |-> oid, presence |-> "Present", criticality |-> criticality,
     validator |-> validator]

ExtensionPolicy_maybe_present(oid, criticality, validator) ==
    [oid |-> oid, presence |-> "MaybePresent", criticality |-> criticality,
     validator |-> validator]

ExtensionPolicy_not_present(oid) ==
    [oid |-> oid, presence |-> "NotPresent", criticality |-> "Agnostic",
     validator |-> None]

Criticality_permits(criticality, critical) ==
    CASE criticality = "Critical" -> critical
      [] criticality = "NonCritical" -> ~critical
      [] OTHER -> TRUE

\* ExtensionPolicy::permits handing the validator whatever it found, an absent
\* extension included
ExtensionPolicy_permits_always_validates(ep, pol, c, extensions) ==
    LET ext == get_extension(extensions, ep.oid)
    IN  IF ~ext.present /\ ep.presence = "Present" THEN ErrExtRequired
        ELSE IF ext.present /\ ep.presence = "NotPresent" THEN ErrExtForbidden
        ELSE IF ext.present /\ ~Criticality_permits(ep.criticality, ext.critical)
             THEN ErrCriticality
        ELSE IF ep.validator = None THEN Ok
        ELSE RunValidator(ep.validator, pol, c, ext)

ExtensionPolicy_permits(ep, pol, c, extensions) ==
    LET ext == get_extension(extensions, ep.oid)
    IN  IF ~ext.present
        THEN IF ep.presence = "Present" THEN ErrExtRequired ELSE Ok
        ELSE IF ep.presence = "NotPresent" THEN ErrExtForbidden
        ELSE IF ~Criticality_permits(ep.criticality, ext.critical) THEN ErrCriticality
        ELSE IF ep.validator = None THEN Ok
        ELSE RunValidator(ep.validator, pol, c, ext)

\* `for ext_policy in list { ext_policy.permits(..)? }`: the first error, or Ok
RECURSIVE permits_all(_, _, _, _)
permits_all(list, pol, c, extensions) ==
    IF list = <<>> THEN Ok
    ELSE Try(ExtensionPolicy_permits(Head(list), pol, c, extensions),
             permits_all(Tail(list), pol, c, extensions))

-----------------------------------------------------------------------------
(* Policy *)

DEFAULT_MAX_CHAIN_DEPTH == 8

\* Option<u8> as <<>> or <<n>>
Policy_new(subject, time, max_chain_depth) ==
    [ max_chain_depth |->
          IF max_chain_depth = <<>> THEN DEFAULT_MAX_CHAIN_DEPTH ELSE max_chain_depth[1],
      subject |-> subject,
      validation_time |-> time,
      extended_key_usage |-> EKU_SERVER_AUTH_OID,
      permitted_public_key_algorithms |-> WEBPKI_PERMITTED_SPKI_ALGORITHMS,
      permitted_signature_algorithms |-> WEBPKI_PERMITTED_SIGNATURE_ALGORITHMS,
      common_extension_policies |-> <<
          ExtensionPolicy_maybe_present(SUBJECT_DIRECTORY_ATTRIBUTES_OID, "NonCritical", None),
          ExtensionPolicy_maybe_present(AUTHORITY_INFORMATION_ACCESS_OID, "NonCritical",
                                        "common::authority_information_access"),
          ExtensionPolicy_maybe_present(EXTENDED_KEY_USAGE_OID, "NonCritical",
                                        "common::extended_key_usage") >>,
      ca_extension_policies |-> <<
          ExtensionPolicy_maybe_present(AUTHORITY_KEY_IDENTIFIER_OID, "NonCritical",
                                        "ca::authority_key_identifier"),
          ExtensionPolicy_maybe_present(SUBJECT_KEY_IDENTIFIER_OID, "NonCritical", None),
          ExtensionPolicy_present(KEY_USAGE_OID, "Agnostic", "ca::key_usage"),
          ExtensionPolicy_present(BASIC_CONSTRAINTS_OID, "Critical", "ca::basic_constraints"),
          ExtensionPolicy_maybe_present(NAME_CONSTRAINTS_OID, "Agnostic",
                                        "ca::name_constraints"),
          ExtensionPolicy_maybe_present(POLICY_CONSTRAINTS_OID, "Critical", None) >>,
      ee_extension_policies |-> <<
          ExtensionPolicy_present(AUTHORITY_KEY_IDENTIFIER_OID, "NonCritical", None),
          ExtensionPolicy_maybe_present(KEY_USAGE_OID, "Agnostic", None),
          ExtensionPolicy_present(SUBJECT_ALTERNATIVE_NAME_OID, "Agnostic",
                                  "ee::subject_alternative_name"),
          ExtensionPolicy_maybe_present(BASIC_CONSTRAINTS_OID, "Agnostic",
                                        "ee::basic_constraints"),
          ExtensionPolicy_not_present(NAME_CONSTRAINTS_OID) >> ]

\* Certificate::extensions(): fails when an OID occurs twice
cert_extensions_err(c) == IF c.duplicate_extension THEN ErrDuplicateExt ELSE Ok

\* critical_extensions with the filter on the critical flag inverted
critical_extensions_inverted(extensions) ==
    {oid \in DOMAIN extensions : extensions[oid].present /\ ~extensions[oid].critical}

\* the OIDs of the extensions marked critical
critical_extensions(extensions) ==
    {oid \in DOMAIN extensions : extensions[oid].present /\ extensions[oid].critical}

\* the OIDs some extension policy of the Policy is registered for
checked_extensions(pol) ==
    {pol.common_extension_policies[i].oid : i \in 1..Len(pol.common_extension_policies)}
    \cup {pol.ca_extension_policies[i].oid : i \in 1..Len(pol.ca_extension_policies)}
    \cup {pol.ee_extension_policies[i].oid : i \in 1..Len(pol.ee_extension_policies)}

\* the serial check accepting at most the 20 octets its message speaks of
serial_check_20(serial_bytes) ==
    IF ~(Len(serial_bytes) >= 1 /\ Len(serial_bytes) <= 20) THEN ErrSerialLen
    ELSE IF serial_bytes[1] >= 128 THEN ErrSerialNeg
    ELSE Ok

\* the serial-number check of permits_basic; `serial_bytes[0] & 0x80 == 0x80`
\* is `serial_bytes[0] >= 128` on an octet
serial_check(serial_bytes) ==
    IF ~(Len(serial_bytes) >= 1 /\ Len(serial_bytes) <= 21) THEN ErrSerialLen
    ELSE IF serial_bytes[1] >= 128 THEN ErrSerialNeg
    ELSE Ok

\* the validity check with both ends of the window excluded
validity_check_exclusive(pol, c) ==
    LET not_before == as_datetime(c.not_before)
        not_after == as_datetime(c.not_after)
    IN  IF permits_validity_date(c.not_before) # Ok
             THEN permits_validity_date(c.not_before)
        ELSE IF permits_validity_date(c.not_after) # Ok
             THEN permits_validity_date(c.not_after)
        ELSE IF pol.validation_time <= not_before \/ pol.validation_time >= not_after
             THEN ErrNotValidNow
        ELSE Ok

\* the validity check of permits_basic
validity_check(pol, c) ==
    LET not_before == as_datetime(c.not_before)
        not_after == as_datetime(c.not_after)
    IN  IF permits_validity_date(c.not_before) # Ok
             THEN permits_validity_date(c.not_before)
        ELSE IF permits_validity_date(c.not_after) # Ok
             THEN permits_validity_date(c.not_after)
        ELSE IF pol.validation_time < not_before \/ pol.validation_time > not_after
             THEN ErrNotValidNow
        ELSE Ok

\* the tests of permits_basic on the fields of the certificate
fields_check(c) ==
    IF c.version # 2 THEN ErrVersion
    ELSE IF c.signature_alg # c.tbs_signature_alg THEN ErrSigAlgMismatch
    ELSE Try(serial_check(c.serial),
             IF c.issuer = "" THEN ErrIssuerEmpty ELSE Ok)

\* the last test of permits_basic: no critical extension is left unaccounted for
critical_check(pol, extensions) ==
    IF critical_extensions(extensions) \ checked_extensions(pol) # {}
    THEN ErrUnaccounted
    ELSE Ok

permits_basic(pol, c) ==
    Try(cert_extensions_err(c),
    Try(fields_check(c),
    Try(validity_check(pol, c),
    Try(permits_all(pol.common_extension_policies, pol, c, c.exts),
        critical_check(pol, c.exts)))))

\* path_length_check comparing with >= where the code compares with >
path_length_check_off_by_one(current_depth, extensions) ==
    LET bc == get_extension(extensions, BASIC_CONSTRAINTS_OID)
    IN  IF ~bc.present THEN Ok
        ELSE IF value_err(bc) # Ok THEN value_err(bc)
        ELSE IF bc.path_length # <<>> /\ current_depth >= bc.path_length[1]
             THEN ErrPathLen
        ELSE Ok

\* the path-length check of permits_ca
path_length_check(current_depth, extensions) ==
    LET bc == get_extension(extensions, BASIC_CONSTRAINTS_OID)
    IN  IF ~bc.present THEN Ok
        ELSE IF value_err(bc) # Ok THEN value_err(bc)
        ELSE IF bc.path_length # <<>> /\ current_depth > bc.path_length[1]
             THEN ErrPathLen
        ELSE Ok

permits_ca(pol, c, current_depth, extensions) ==
    Try(permits_basic(pol, c),
    Try(path_length_check(current_depth, extensions),
        permits_all(pol.ca_extension_policies, pol, c, extensions)))

permits_ee(pol, c, extensions) ==
    Try(permits_basic(pol, c),
        permits_all(pol.ee_extension_policies, pol, c, extensions))

\* permits_leaf refactored to `permits_ee() || permits_ca()`
permits_leaf_either(pol, c, extensions) ==
    IF permits_ee(pol, c, extensions) = Ok THEN Ok
    ELSE permits_ca(pol, c, 0, extensions)

permits_leaf(pol, c, extensions) ==
    LET key_usage == get_extension(extensions, KEY_USAGE_OID)
    IN  IF key_usage.present /\ value_err(key_usage) # Ok THEN value_err(key_usage)
        ELSE IF key_usage.present /\ key_usage.key_cert_sign
             THEN permits_ca(pol, c, 0, extensions)
        ELSE permits_ee(pol, c, extensions)

(* CryptoOps: a key is named; a certificate records the key that signed it  *)
(* and its own key, "malformed" when the SubjectPublicKeyInfo is unusable.  *)

ops_public_key(c) == IF c.public_key = "malformed" THEN <<>> ELSE << c.public_key >>
ops_verify_signed_by(c, pk) == c.signed_by = pk

\* valid_issuer verifying the signature before it looks at the algorithms
valid_issuer_verifies_first(pol, issuer, c, current_depth, issuer_extensions) ==
    LET ca == permits_ca(pol, issuer, current_depth, issuer_extensions)
        pk == ops_public_key(issuer)
    IN  IF ca # Ok THEN [res |-> ca, calls |-> <<>>]
        ELSE IF pk = <<>>
             THEN [res |-> ErrIssuerKey, calls |-> << "public_key" >>]
        ELSE IF ~ops_verify_signed_by(c, pk[1])
             THEN [res |-> ErrSigMismatch, calls |-> << "public_key", "verify_signed_by" >>]
        ELSE IF c.spki_algorithm \notin pol.permitted_public_key_algorithms
             THEN [res |-> ErrForbiddenPk, calls |-> << "public_key", "verify_signed_by" >>]
        ELSE IF c.signature_alg \notin pol.permitted_signature_algorithms
             THEN [res |-> ErrForbiddenSig, calls |-> << "public_key", "verify_signed_by" >>]
        ELSE [res |-> Ok, calls |-> << "public_key", "verify_signed_by" >>]

\* valid_issuer applying the allow-lists to the issuer where the code applies
\* them to the child
valid_issuer_checks_issuer(pol, issuer, c, current_depth, issuer_extensions) ==
    LET ca == permits_ca(pol, issuer, current_depth, issuer_extensions)
        pk == ops_public_key(issuer)
    IN  IF ca # Ok THEN [res |-> ca, calls |-> <<>>]
        ELSE IF issuer.spki_algorithm \notin pol.permitted_public_key_algorithms
             THEN [res |-> ErrForbiddenPk, calls |-> <<>>]
        ELSE IF issuer.signature_alg \notin pol.permitted_signature_algorithms
             THEN [res |-> ErrForbiddenSig, calls |-> <<>>]
        ELSE IF pk = <<>>
             THEN [res |-> ErrIssuerKey, calls |-> << "public_key" >>]
        ELSE IF ~ops_verify_signed_by(c, pk[1])
             THEN [res |-> ErrSigMismatch, calls |-> << "public_key", "verify_signed_by" >>]
        ELSE [res |-> Ok, calls |-> << "public_key", "verify_signed_by" >>]

\* valid_issuer reporting a forbidden signature algorithm with the message of
\* the check before it
valid_issuer_one_message(pol, issuer, c, current_depth, issuer_extensions) ==
    LET ca == permits_ca(pol, issuer, current_depth, issuer_extensions)
        pk == ops_public_key(issuer)
    IN  IF ca # Ok THEN [res |-> ca, calls |-> <<>>]
        ELSE IF c.spki_algorithm \notin pol.permitted_public_key_algorithms
             THEN [res |-> ErrForbiddenPk, calls |-> <<>>]
        ELSE IF c.signature_alg \notin pol.permitted_signature_algorithms
             THEN [res |-> ErrForbiddenPk, calls |-> <<>>]
        ELSE IF pk = <<>>
             THEN [res |-> ErrIssuerKey, calls |-> << "public_key" >>]
        ELSE IF ~ops_verify_signed_by(c, pk[1])
             THEN [res |-> ErrSigMismatch, calls |-> << "public_key", "verify_signed_by" >>]
        ELSE [res |-> Ok, calls |-> << "public_key", "verify_signed_by" >>]

\* valid_issuer: its Result and the CryptoOps calls it made, in order
valid_issuer(pol, issuer, c, current_depth, issuer_extensions) ==
    LET ca == permits_ca(pol, issuer, current_depth, issuer_extensions)
        pk == ops_public_key(issuer)
    IN  IF ca # Ok THEN [res |-> ca, calls |-> <<>>]
        ELSE IF c.spki_algorithm \notin pol.permitted_public_key_algorithms
             THEN [res |-> ErrForbiddenPk, calls |-> <<>>]
        ELSE IF c.signature_alg \notin pol.permitted_signature_algorithms
             THEN [res |-> ErrForbiddenSig, calls |-> <<>>]
        ELSE IF pk = <<>>
             THEN [res |-> ErrIssuerKey, calls |-> << "public_key" >>]
        ELSE IF ~ops_verify_signed_by(c, pk[1])
             THEN [res |-> ErrSigMismatch, calls |-> << "public_key", "verify_signed_by" >>]
        ELSE [res |-> Ok, calls |-> << "public_key", "verify_signed_by" >>]

-----------------------------------------------------------------------------
(* Certificates *)

NoExtensions == [oid \in OIDs |-> Absent]

KeyUsage(critical, key_cert_sign) ==
    [Ext(critical) EXCEPT !.key_cert_sign = key_cert_sign]
BasicConstraints(critical, ca, path_length) ==
    [Ext(critical) EXCEPT !.ca = ca, !.path_length = path_length]
SubjectAlternativeName(critical, names) == [Ext(critical) EXCEPT !.names = names]
ExtendedKeyUsage(critical, usages) == [Ext(critical) EXCEPT !.usages = usages]
AuthorityKeyIdentifier(critical, key_identifier) ==
    [Ext(critical) EXCEPT !.key_identifier = key_identifier]
\* a value that decodes and breaks its validator's rule
IllFormed(critical) == [Ext(critical) EXCEPT !.well_formed = FALSE]

\* a well-formed intermediate CA certificate: subject "A", issued by "R"
CaCert ==
    [ version |-> 2,
      signature_alg |-> "RsaWithSha256+NULL",
      tbs_signature_alg |-> "RsaWithSha256+NULL",
      serial |-> << 1 >>,
      issuer |-> "R",
      subject |-> "A",
      not_before |-> UtcTime(1),
      not_after |-> UtcTime(3),
      spki_algorithm |-> "Rsa+NULL",
      public_key |-> "kA",
      signed_by |-> "kR",
      duplicate_extension |-> FALSE,
      exts |-> [NoExtensions EXCEPT
                  ![KEY_USAGE_OID] = KeyUsage(TRUE, TRUE),
                  ![BASIC_CONSTRAINTS_OID] = BasicConstraints(TRUE, TRUE, <<>>)] ]

\* a well-formed end-entity certificate: subject "L", issued by "A"
EeCert ==
    [ CaCert EXCEPT
        !.issuer = "A", !.subject = "L", !.public_key = "kL", !.signed_by = "kA",
        !.exts = [NoExtensions EXCEPT
                  ![AUTHORITY_KEY_IDENTIFIER_OID] = AuthorityKeyIdentifier(FALSE, TRUE),
                  ![SUBJECT_ALTERNATIVE_NAME_OID] =
                      SubjectAlternativeName(FALSE, WildcardSan)] ]

SetExt(c, oid, ext) == [c EXCEPT !.exts[oid] = ext]

\* the single-field deviations from a well-formed certificate
Patches ==
    { "version", "sig_mismatch", "sig_sha1", "serial_empty", "serial_negative",
      "serial_22", "serial_21", "issuer_empty", "not_before_generalized",
      "not_yet_valid", "expired", "key_malformed", "self_signed",
      "duplicate_extension",
      "ku_absent", "ku_sign", "ku_no_sign", "ku_malformed",
      "bc_absent", "bc_noncritical", "bc_not_ca", "bc_pathlen0", "bc_pathlen1",
      "bc_malformed",
      "san_absent", "san_good", "san_other", "san_malformed",
      "aki_absent", "aki_no_keyid", "nc_ill_formed", "pc_critical",
      "unknown_critical", "unknown_noncritical", "eku_client", "aia_ill_formed" }

\* deviations of a child certificate that valid_issuer looks at
ChildPatches ==
    { "spki_dsa", "sig_sha1", "sig_ecdsa_null", "sig_ecdsa384_null", "sig_ecdsa512_null",
      "sig_rsa_no_null", "sig_rsa384_no_null", "sig_rsa512_no_null", "signed_by_other" }

\* the certificate signed with the algorithm identifier alg
SignedWith(c, alg) == [c EXCEPT !.signature_alg = alg, !.tbs_signature_alg = alg]

ApplyPatch(c, patch) ==
    CASE patch = "version" -> [c EXCEPT !.version = 0]
      [] patch = "sig_mismatch" -> [c EXCEPT !.signature_alg = "RsaWithSha384+NULL"]
      [] patch = "sig_sha1" -> [c EXCEPT !.signature_alg = "RsaWithSha1+NULL",
                                         !.tbs_signature_alg = "RsaWithSha1+NULL"]
      [] patch = "sig_ecdsa_null" -> [c EXCEPT !.signature_alg = "EcDsaWithSha256+NULL",
                                               !.tbs_signature_alg = "EcDsaWithSha256+NULL"]
      [] patch = "sig_ecdsa384_null" -> SignedWith(c, "EcDsaWithSha384+NULL")
      [] patch = "sig_ecdsa512_null" -> SignedWith(c, "EcDsaWithSha512+NULL")
      [] patch = "sig_rsa_no_null" -> SignedWith(c, "RsaWithSha256")
      [] patch = "sig_rsa384_no_null" -> SignedWith(c, "RsaWithSha384")
      [] patch = "sig_rsa512_no_null" -> SignedWith(c, "RsaWithSha512")
      [] patch = "serial_empty" -> [c EXCEPT !.serial = <<>>]
      [] patch = "serial_negative" -> [c EXCEPT !.serial = << 128, 1 >>]
      [] patch = "serial_22" -> [c EXCEPT !.serial = [i \in 1..22 |-> 1]]
      [] patch = "serial_21" -> [c EXCEPT !.serial = [i \in 1..21 |-> IF i = 1 THEN 0 ELSE 255]]
      [] patch = "issuer_empty" -> [c EXCEPT !.issuer = ""]
      [] patch = "not_before_generalized" -> [c EXCEPT !.not_before = GeneralizedTime(1)]
      [] patch = "not_yet_valid" -> [c EXCEPT !.not_before = UtcTime(3)]
      [] patch = "expired" -> [c EXCEPT !.not_after = UtcTime(1)]
      [] patch = "spki_dsa" -> [c EXCEPT !.spki_algorithm = "Dsa"]
      [] patch = "key_malformed" -> [c EXCEPT !.public_key = "malformed"]
      [] patch = "signed_by_other" -> [c EXCEPT !.signed_by = "kX"]
      [] patch = "self_signed" -> [c EXCEPT !.issuer = c.subject, !.signed_by = c.public_key]
      [] patch = "duplicate_extension" -> [c EXCEPT !.duplicate_extension = TRUE]
      [] patch = "ku_absent" -> SetExt(c, KEY_USAGE_OID, Absent)
      [] patch = "ku_sign" -> SetExt(c, KEY_USAGE_OID, KeyUsage(FALSE, TRUE))
      [] patch = "ku_no_sign" -> SetExt(c, KEY_USAGE_OID, KeyUsage(TRUE, FALSE))
      [] patch = "ku_malformed" -> SetExt(c, KEY_USAGE_OID, BadExt(TRUE))
      [] patch = "bc_absent" -> SetExt(c, BASIC_CONSTRAINTS_OID, Absent)
      [] patch = "bc_noncritical" ->
            SetExt(c, BASIC_CONSTRAINTS_OID, BasicConstraints(FALSE, TRUE, <<>>))
      [] patch = "bc_not_ca" ->
            SetExt(c, BASIC_CONSTRAINTS_OID, BasicConstraints(TRUE, FALSE, <<>>))
      [] patch = "bc_pathlen0" ->
            SetExt(c, BASIC_CONSTRAINTS_OID, BasicConstraints(TRUE, TRUE, << 0 >>))
      [] patch = "bc_pathlen1" ->
            SetExt(c, BASIC_CONSTRAINTS_OID, BasicConstraints(TRUE, TRUE, << 1 >>))
      [] patch = "bc_malformed" -> SetExt(c, BASIC_CONSTRAINTS_OID, BadExt(TRUE))
      [] patch = "san_absent" -> SetExt(c, SUBJECT_ALTERNATIVE_NAME_OID, Absent)
      [] patch = "san_good" ->
            SetExt(c, SUBJECT_ALTERNATIVE_NAME_OID, SubjectAlternativeName(TRUE, WildcardSan))
      [] patch = "san_other" ->
            SetExt(c, SUBJECT_ALTERNATIVE_NAME_OID, SubjectAlternativeName(FALSE, OtherSan))
      [] patch = "san_malformed" -> SetExt(c, SUBJECT_ALTERNATIVE_NAME_OID, BadExt(FALSE))
      [] patch = "aki_absent" -> SetExt(c, AUTHORITY_KEY_IDENTIFIER_OID, Absent)
      [] patch = "aki_no_keyid" ->
            SetExt(c, AUTHORITY_KEY_IDENTIFIER_OID, AuthorityKeyIdentifier(FALSE, FALSE))
      [] patch = "nc_ill_formed" -> SetExt(c, NAME_CONSTRAINTS_OID, IllFormed(TRUE))
      [] patch = "pc_critical" -> SetExt(c, POLICY_CONSTRAINTS_OID, Ext(TRUE))
      [] patch = "pc_noncritical" -> SetExt(c, POLICY_CONSTRAINTS_OID, Ext(FALSE))
      [] patch = "unknown_critical" -> SetExt(c, UNKNOWN_OID, Ext(TRUE))
      [] patch = "unknown_noncritical" -> SetExt(c, UNKNOWN_OID, Ext(FALSE))
      [] patch = "eku_client" ->
            SetExt(c, EXTENDED_KEY_USAGE_OID, ExtendedKeyUsage(FALSE, {EKU_CLIENT_AUTH_OID}))
      [] patch = "aia_ill_formed" ->
            SetExt(c, AUTHORITY_INFORMATION_ACCESS_OID, IllFormed(FALSE))
      [] OTHER -> c

\* the certificates at most n deviations away from those of `from`
RECURSIVE Deviate(_, _)
Deviate(from, n) ==
    IF n = 0 THEN from
    ELSE LET nearer == Deviate(from, n - 1)
         IN  nearer \cup {ApplyPatch(c, p) : c \in nearer, p \in Patches}

Certificates == Deviate({CaCert, EeCert}, MaxDeviations)

\* the children handed to valid_issuer
Children ==
    {EeCert} \cup {ApplyPatch(EeCert, p) : p \in ChildPatches}
    \cup {ApplyPatch(ApplyPatch(EeCert, "spki_dsa"), "sig_sha1")}

ValidationTime == 2

DefaultPolicy == Policy_new(DnsSubject(TheName), ValidationTime, <<>>)

-----------------------------------------------------------------------------
(* The policy run: one admission predicate is applied to one certificate.   *)

NoOutcome == [ok |-> FALSE, chain |-> <<>>, err |-> None, context |-> ""]

ChainIdle ==
    /\ leaf = EeCert
    /\ inters = <<>>
    /\ store = <<>>
    /\ pc = "idle"
    /\ stack = <<>>
    /\ outcome = NoOutcome
    /\ tried = <<>>

FnIdle ==
    /\ fn = "idle"
    /\ arg = <<>>
    /\ out = None

Init ==
    /\ policy = DefaultPolicy
    /\ cert \in Certificates
    /\ child = EeCert
    /\ depth = 0
    /\ op = "none"
    /\ res = None
    /\ ops_calls = <<>>
    /\ ChainIdle
    /\ FnIdle

PermitsBasic ==
    /\ op = "none"
    /\ op' = "permits_basic"
    /\ res' = permits_basic(policy, cert)
    /\ UNCHANGED <<policy, cert, child, depth, ops_calls, chainVars, fnVars>>

PermitsCa ==
    /\ op = "none"
    /\ \E d \in 0..MaxDepth :
         /\ depth' = d
         /\ res' = permits_ca(policy, cert, d, cert.exts)
    /\ op' = "permits_ca"
    /\ UNCHANGED <<policy, cert, child, ops_calls, chainVars, fnVars>>

PermitsEe ==
    /\ op = "none"
    /\ op' = "permits_ee"
    /\ res' = permits_ee(policy, cert, cert.exts)
    /\ UNCHANGED <<policy, cert, child, depth, ops_calls, chainVars, fnVars>>

PermitsLeaf ==
    /\ op = "none"
    /\ op' = "permits_leaf"
    /\ res' = permits_leaf(policy, cert, cert.exts)
    /\ UNCHANGED <<policy, cert, child, depth, ops_calls, chainVars, fnVars>>

ValidIssuer ==
    /\ op = "none"
    /\ \E d \in 0..MaxDepth, c \in Children :
         LET r == valid_issuer(policy, cert, c, d, cert.exts)
         IN  /\ depth' = d
             /\ child' = c
             /\ res' = r.res
             /\ ops_calls' = r.calls
    /\ op' = "valid_issuer"
    /\ UNCHANGED <<policy, cert, chainVars, fnVars>>

Next == PermitsBasic \/ PermitsCa \/ PermitsEe \/ PermitsLeaf \/ ValidIssuer

Spec == Init /\ [][Next]_vars

-----------------------------------------------------------------------------
(* The chain search: a depth-limited depth-first search from the leaf to a  *)
(* trust anchor.  Each frame of the stack is one level of the recursion:    *)
(* the certificate whose issuer is sought, the depth, the candidates still  *)
(* to try and the last error seen at this level.                            *)

PathContext == "could not build path to trusted root"

self_issued(c) == c.subject = c.issuer

\* Delta that never counts an issuer
Delta_never(c) == 0

\* the depth added by stepping to issuer c
Delta(c) == IF self_issued(c) THEN 0 ELSE 1

\* what identifies a certificate on a path: its subject and its key identifier
PathKey(c) == << c.subject, c.public_key >>

\* PotentialIssuers without the refusal to traverse a path member again
PotentialIssuers_revisiting(current, anchors, intermediates, path) ==
    LET from_store == SelectSeq(anchors, LAMBDA c : c.subject = current.issuer)
        from_pool == SelectSeq(intermediates, LAMBDA c : c.subject = current.issuer)
    IN  [i \in 1..Len(from_store) |-> [cert |-> from_store[i], anchor |-> TRUE]]
        \o [i \in 1..Len(from_pool) |-> [cert |-> from_pool[i], anchor |-> FALSE]]

\* the candidate issuers of `current`: anchors first, then intermediates, each
\* in insertion order; an intermediate already on the path is not traversed again
PotentialIssuers(current, anchors, intermediates, path) ==
    LET on_path == {PathKey(path[i]) : i \in 1..Len(path)}
        from_store == SelectSeq(anchors, LAMBDA c : c.subject = current.issuer)
        from_pool == SelectSeq(intermediates,
                               LAMBDA c : /\ c.subject = current.issuer
                                          /\ PathKey(c) \notin on_path)
    IN  [i \in 1..Len(from_store) |-> [cert |-> from_store[i], anchor |-> TRUE]]
        \o [i \in 1..Len(from_pool) |-> [cert |-> from_pool[i], anchor |-> FALSE]]

\* RetainError keeping the first error seen at a level
RetainError_first(old, new) == IF old = ErrNoIssuer THEN new ELSE old

\* the error a level keeps after a further candidate failed with `new`
RetainError(old, new) == new

PathOf(frames) == [i \in 1..Len(frames) |-> frames[i].cert]

Frame(c, d, frames) ==
    [ cert |-> c, depth |-> d,
      cands |-> PotentialIssuers(c, store, inters, Append(PathOf(frames), c)),
      last_err |-> ErrNoIssuer ]

Top == stack[Len(stack)]
Below == SubSeq(stack, 1, Len(stack) - 1)

\* the level on top returns error e to its caller
ReturnError(e) ==
    IF Len(stack) = 1
    THEN /\ pc' = "done"
         /\ stack' = <<>>
         /\ outcome' = [ok |-> FALSE, chain |-> <<>>, err |-> e, context |-> PathContext]
    ELSE /\ pc' = "search"
         /\ stack' = [Below EXCEPT ![Len(stack) - 1].last_err =
                          RetainError(Below[Len(stack) - 1].last_err, e)]
         /\ UNCHANGED outcome

\* step 1: the leaf must be permitted
Start ==
    /\ pc = "start"
    /\ LET r == permits_leaf(policy, leaf, leaf.exts)
       IN  IF r # Ok
           THEN /\ pc' = "done"
                /\ outcome' = [ok |-> FALSE, chain |-> <<>>, err |-> r, context |-> ""]
                /\ UNCHANGED stack
           ELSE /\ pc' = "search"
                /\ stack' = << Frame(leaf, 0, <<>>) >>
                /\ UNCHANGED outcome
    /\ UNCHANGED <<policy, policyVars, fnVars, leaf, inters, store, tried>>

\* step 4: the depth bound
DepthExceeded ==
    /\ pc = "search"
    /\ Top.depth > policy.max_chain_depth
    /\ ReturnError(ErrMaxDepth)
    /\ UNCHANGED <<policy, policyVars, fnVars, leaf, inters, store, tried>>

\* step 3: the next candidate of the level on top
TryCandidate ==
    /\ pc = "search"
    /\ Top.depth <= policy.max_chain_depth
    /\ Top.cands # <<>>
    /\ Len(stack) < MaxStack
    /\ LET c == Head(Top.cands)
           r == valid_issuer(policy, c.cert, Top.cert, Top.depth, c.cert.exts).res
           rest == [stack EXCEPT ![Len(stack)].cands = Tail(Top.cands)]
       IN  /\ tried' = Append(tried, [issuer |-> c.cert, child |-> Top.cert,
                                      depth |-> Top.depth, anchor |-> c.anchor,
                                      res |-> r])
           /\ IF r # Ok
              THEN /\ stack' = [rest EXCEPT ![Len(stack)].last_err =
                                    RetainError(Top.last_err, r)]
                   /\ UNCHANGED <<pc, outcome>>
              ELSE IF c.anchor
              THEN /\ pc' = "done"
                   /\ stack' = <<>>
                   /\ outcome' = [ok |-> TRUE, chain |-> Append(PathOf(stack), c.cert),
                                  err |-> None, context |-> ""]
              ELSE /\ stack' = Append(rest, Frame(c.cert, Top.depth + Delta(c.cert), stack))
                   /\ UNCHANGED <<pc, outcome>>
    /\ UNCHANGED <<policy, policyVars, fnVars, leaf, inters, store>>

\* step 5: no candidate of the level on top is left
Exhausted ==
    /\ pc = "search"
    /\ Top.depth <= policy.max_chain_depth
    /\ Top.cands = <<>>
    /\ ReturnError(Top.last_err)
    /\ UNCHANGED <<policy, policyVars, fnVars, leaf, inters, store, tried>>

(* The certificates of the chain runs.  Subjects are "L" (the leaf), "A"    *)
(* and "B" (intermediate CAs) and "R" (the root); "kA2" is a second key of  *)
(* CA "A".                                                                  *)

Issued(c, subject, key, issuer, issuer_key) ==
    [c EXCEPT !.subject = subject, !.public_key = key,
              !.issuer = issuer, !.signed_by = issuer_key]

Leaves ==
    { EeCert, ApplyPatch(EeCert, "sig_sha1"), ApplyPatch(EeCert, "spki_dsa"),
      ApplyPatch(EeCert, "san_other") }

IntermediatePool ==
    { CaCert,                                             \* A, issued by R
      ApplyPatch(CaCert, "sig_sha1"),                     \* the same, signed with SHA-1
      Issued(CaCert, "A", "kA", "B", "kB"),               \* A, cross-signed by B
      Issued(CaCert, "B", "kB", "A", "kA"),               \* B, cross-signed by A
      Issued(CaCert, "A", "kA", "A", "kA"),               \* A, self-signed
      Issued(CaCert, "A", "kA", "A", "kA2"),              \* A's new key, signed by its old
      Issued(CaCert, "A", "kA2", "R", "kR") }             \* A's old key, issued by R

Root == Issued(CaCert, "R", "kR", "R", "kR")

\* the trust stores tried: none, the root, the root after and before an
\* expired namesake, the leaf's issuer itself, and that issuer expired
Stores ==
    { <<>>, << Root >>, << ApplyPatch(Root, "expired"), Root >>,
      << Root, ApplyPatch(Root, "expired") >>, << CaCert >>,
      << ApplyPatch(CaCert, "expired") >> }

\* the sequences of at most n distinct members of S
RECURSIVE Arrangements(_, _)
Arrangements(S, n) ==
    IF n = 0 THEN { <<>> }
    ELSE LET shorter == Arrangements(S, n - 1)
             extend(q) == { Append(q, c) :
                              c \in {x \in S : \A i \in 1..Len(q) : q[i] # x} }
         IN  shorter \cup UNION { extend(q) : q \in shorter }

PolicyIdle ==
    /\ cert = CaCert
    /\ child = EeCert
    /\ depth = 0
    /\ op = "none"
    /\ res = None
    /\ ops_calls = <<>>

InitChain ==
    /\ policy \in {Policy_new(DnsSubject(TheName), ValidationTime, << d >>) :
                      d \in 0..MaxDepth}
    /\ leaf \in Leaves
    /\ inters \in Arrangements(IntermediatePool, MaxPool)
    /\ store \in Stores
    /\ pc = "start"
    /\ stack = <<>>
    /\ outcome = NoOutcome
    /\ tried = <<>>
    /\ PolicyIdle
    /\ FnIdle

NextChain == Start \/ DepthExceeded \/ TryCandidate \/ Exhausted

SpecChain == InitChain /\ [][NextChain]_vars

\* the search is one sequential computation: it keeps running until it returns
FairChain == SpecChain /\ WF_vars(NextChain)

-----------------------------------------------------------------------------
(* Properties of the admission predicates *)

AdmissionOps == { "permits_basic", "permits_ca", "permits_ee", "permits_leaf" }

\* the OIDs registered in the common, CA or EE list of the policy
Registered(pol) ==
    {oid \in OIDs :
        \E list \in { pol.common_extension_policies, pol.ca_extension_policies,
                      pol.ee_extension_policies } :
            \E i \in 1..Len(list) : list[i].oid = oid}

CriticalOids(c) == {oid \in OIDs : c.exts[oid].present /\ c.exts[oid].critical}

\* C6: a certificate that permits_basic, permits_ca, permits_ee or permits_leaf
\* (or valid_issuer, for the issuer) accepts carries no critical extension
\* whose OID is registered in none of the policy's common, CA and EE lists; a
\* certificate carrying such an extension is rejected by each of them.
C6_CriticalExtensionsAccounted ==
    (op \in AdmissionOps \cup {"valid_issuer"} /\ res = Ok)
        => CriticalOids(cert) \subseteq Registered(policy)

\* C6 witness: a certificate with a (registered) critical extension is accepted
C6_Witness ==
    /\ op = "permits_ee" /\ res = Ok
    /\ CriticalOids(cert) # {}

\* what each check of valid_issuer finds for the issuer and child at hand
IssuerPermitted == permits_ca(policy, cert, depth, cert.exts) = Ok
ChildKeyPermitted == child.spki_algorithm \in policy.permitted_public_key_algorithms
ChildSigPermitted == child.signature_alg \in policy.permitted_signature_algorithms
IssuerKeyLoads == cert.public_key # "malformed"
ChildVerifies == child.signed_by = cert.public_key

\* C7: valid_issuer returns Ok exactly when the issuer passes permits_ca, the
\* child's SPKI and signature algorithms are permitted, the issuer's key loads
\* and the child's signature verifies; otherwise it returns the error of the
\* first of these that fails, and it calls no crypto operation unless the
\* first three passed.
C7_ValidIssuerOrder ==
    op = "valid_issuer" =>
        /\ res = Ok <=> ( IssuerPermitted /\ ChildKeyPermitted /\ ChildSigPermitted
                          /\ IssuerKeyLoads /\ ChildVerifies )
        /\ ~IssuerPermitted => res = permits_ca(policy, cert, depth, cert.exts)
        /\ (IssuerPermitted /\ ~ChildKeyPermitted) => res = ErrForbiddenPk
        /\ (IssuerPermitted /\ ChildKeyPermitted /\ ~ChildSigPermitted)
              => res = ErrForbiddenSig
        /\ (IssuerPermitted /\ ChildKeyPermitted /\ ChildSigPermitted /\ ~IssuerKeyLoads)
              => res = ErrIssuerKey
        /\ ( IssuerPermitted /\ ChildKeyPermitted /\ ChildSigPermitted
             /\ IssuerKeyLoads /\ ~ChildVerifies ) => res = ErrSigMismatch
        /\ ~(IssuerPermitted /\ ChildKeyPermitted /\ ChildSigPermitted)
              => ops_calls = <<>>

\* C7 witness: a child that fails two checks at once gets the earlier error,
\* and no key was loaded for it
C7_Witness ==
    /\ op = "valid_issuer" /\ res = ErrForbiddenPk /\ ops_calls = <<>>
    /\ ~ChildSigPermitted /\ ~ChildVerifies

AssertsKeyCertSign(c) ==
    LET ku == c.exts[KEY_USAGE_OID]
    IN  ku.present /\ ku.decodes /\ ku.key_cert_sign

KeyUsageUndecodable(c) ==
    c.exts[KEY_USAGE_OID].present /\ ~c.exts[KEY_USAGE_OID].decodes

CaArm == permits_ca(policy, cert, 0, cert.exts)
EeArm == permits_ee(policy, cert, cert.exts)

C9_LeafIsEeOrCa ==
    op = "permits_leaf" => (res = Ok <=> (EeArm = Ok \/ CaArm = Ok))

PathLenViolated(c, d) ==
    LET bc == c.exts[BASIC_CONSTRAINTS_OID]
    IN  bc.present /\ bc.decodes /\ bc.path_length # <<>> /\ d > bc.path_length[1]

\* C10: permits_ca rejects when BasicConstraints carries pathLenConstraint = k
\* and current_depth > k; it reports a path-length violation in no other case;
\* and it accepts only if permits_basic, the path-length check and every CA
\* extension policy pass.
C10_PermitsCa ==
    op = "permits_ca" =>
        /\ PathLenViolated(cert, depth) => res # Ok
        /\ res = ErrPathLen => PathLenViolated(cert, depth)
        /\ res = Ok =>
              /\ permits_basic(policy, cert) = Ok
              /\ ~PathLenViolated(cert, depth)
              /\ \A i \in 1..Len(policy.ca_extension_policies) :
                    ExtensionPolicy_permits(policy.ca_extension_policies[i],
                                            policy, cert, cert.exts) = Ok

\* C10 witness: a pathLenConstraint of 0 rejects a CA at depth 1 that
\* is acceptable at depth 0
C10_Witness ==
    /\ op = "permits_ca" /\ res = ErrPathLen /\ depth = 1
    /\ cert.exts[BASIC_CONSTRAINTS_OID].path_length = << 0 >>
    /\ permits_ca(policy, cert, 0, cert.exts) = Ok

\* the five failures a caller is to tell apart
BranchingFailures ==
    { ErrNotValidNow, ErrSubjectMismatch, ErrEku, ErrForbiddenPk, ErrForbiddenSig }

-----------------------------------------------------------------------------
(* Properties of the chain search *)

Done == pc = "done"
Accepted == Done /\ outcome.ok

\* the certificates of a chain between its leaf and its anchor
Intermediates(chain) == SubSeq(chain, 2, Len(chain) - 1)

\* how many of the first n certificates of q are not self-issued
RECURSIVE NonSelfIssued(_, _)
NonSelfIssued(q, n) ==
    IF n = 0 THEN 0
    ELSE NonSelfIssued(q, n - 1) + (IF q[n].subject = q[n].issuer THEN 0 ELSE 1)

\* C1: an accepted chain has at most max_chain_depth intermediates that are
\* not self-issued, leaf and anchor not counted; and at every level of the
\* search the depth is that of the level below, plus 1 when the certificate
\* stepped to is not self-issued and plus 0 when it is.
C1_ChainBound ==
    /\ Accepted =>
          NonSelfIssued(Intermediates(outcome.chain), Len(outcome.chain) - 2)
              <= policy.max_chain_depth
    /\ pc = "search" =>
          /\ stack[1].depth = 0
          /\ \A i \in 2..Len(stack) :
                stack[i].depth = stack[i - 1].depth
                    + (IF stack[i].cert.subject = stack[i].cert.issuer THEN 0 ELSE 1)

\* C1 witness: a chain is accepted that has exactly max_chain_depth
\* intermediates that are not self-issued, and a self-issued one besides
C1_Witness ==
    /\ Accepted
    /\ policy.max_chain_depth = 1
    /\ Len(outcome.chain) = 4
    /\ NonSelfIssued(Intermediates(outcome.chain), 2) = 1

\* what valid_issuer has to find for issuer c of child k at depth d
LinkHolds(c, k, d) ==
    /\ permits_ca(policy, c, d, c.exts) = Ok
    /\ k.spki_algorithm \in policy.permitted_public_key_algorithms
    /\ k.signature_alg \in policy.permitted_signature_algorithms
    /\ c.public_key # "malformed"
    /\ k.signed_by = c.public_key

InStore(c) == \E i \in 1..Len(store) : store[i] = c

\* C2: on success the chain starts with the leaf, ends with a certificate of
\* the trust store, and every certificate after the first has the subject
\* that the one before it names as issuer and passes valid_issuer for it at
\* the depth it was reached at; in every other case an error and no chain
\* are returned.
C2_NoPartialSuccess ==
    Done =>
        IF outcome.ok
        THEN LET chain == outcome.chain
             IN  /\ Len(chain) >= 2
                 /\ chain[1] = leaf
                 /\ InStore(chain[Len(chain)])
                 /\ outcome.err = None
                 /\ \A i \in 1..(Len(chain) - 1) :
                       /\ chain[i + 1].subject = chain[i].issuer
                       /\ LinkHolds(chain[i + 1], chain[i],
                                    NonSelfIssued(Intermediates(chain), i - 1))
        ELSE outcome.chain = <<>> /\ outcome.err # None /\ outcome.err # Ok

\* C2 witness: a chain through two intermediates is accepted
C2_Witness == Accepted /\ Len(outcome.chain) = 4

\* C3: the search returns, whatever the intermediate pool holds.
C3_Terminates == <>Done

\* C3 witness: a search that stepped to a self-issued intermediate (which
\* adds no depth) and met a certificate cross-signed back to the path returned
C3_Witness ==
    /\ Done
    /\ \E i \in 1..Len(tried) :
          ~tried[i].anchor /\ tried[i].res = Ok /\ self_issued(tried[i].issuer)
    /\ \E i \in 1..Len(inters) :
          /\ inters[i].subject = "A" /\ inters[i].issuer = "A"
          /\ \E j \in 1..Len(tried) : tried[j].child = inters[i]

\* C4: when the search fails with no candidate having validated, the error
\* returned is that of the last candidate tried, with the path-building
\* context.
C4_LastError ==
    ( /\ Done /\ ~outcome.ok
      /\ tried # <<>>
      /\ \A i \in 1..Len(tried) : tried[i].res # Ok )
        => /\ outcome.err = tried[Len(tried)].res
           /\ outcome.context = PathContext

\* C4 witness: two candidates failed with different errors
C4_Witness ==
    /\ Done /\ ~outcome.ok
    /\ Len(tried) = 2
    /\ tried[1].res # Ok /\ tried[2].res # Ok /\ tried[1].res # tried[2].res

KeyPermitted(c) == c.spki_algorithm \in policy.permitted_public_key_algorithms
SigPermitted(c) == c.signature_alg \in policy.permitted_signature_algorithms

\* C5 as claimed: a chain with a forbidden algorithm below its anchor is
\* rejected with the forbidden-public-key or forbidden-signature error.
C5_AsClaimed ==
    /\ Accepted => \A i \in 1..(Len(outcome.chain) - 1) :
                      KeyPermitted(outcome.chain[i]) /\ SigPermitted(outcome.chain[i])
    /\ \A i \in 1..Len(tried) :
          /\ ~KeyPermitted(tried[i].child) => tried[i].res = ErrForbiddenPk
          /\ (KeyPermitted(tried[i].child) /\ ~SigPermitted(tried[i].child))
                => tried[i].res = ErrForbiddenSig

\* C5 amended: no certificate below the anchor of an accepted chain has a
\* forbidden SPKI or signature algorithm; valid_issuer rejects every link
\* whose child has one, with the forbidden-public-key error when the issuer
\* passes permits_ca, with the forbidden-signature error when moreover the
\* child's SPKI algorithm is permitted, and with the error of permits_ca
\* when the issuer does not pass it.
C5_ForbiddenAlgorithms ==
    /\ Accepted => \A i \in 1..(Len(outcome.chain) - 1) :
                      KeyPermitted(outcome.chain[i]) /\ SigPermitted(outcome.chain[i])
    /\ \A i \in 1..Len(tried) :
          LET t == tried[i]
              ca == permits_ca(policy, t.issuer, t.depth, t.issuer.exts)
          IN  (~KeyPermitted(t.child) \/ ~SigPermitted(t.child)) =>
                 t.res = IF ca # Ok THEN ca
                         ELSE IF ~KeyPermitted(t.child) THEN ErrForbiddenPk
                         ELSE ErrForbiddenSig

\* C5 witness: an intermediate signed with a forbidden algorithm was
\* rejected as the child of a trust anchor
C5_Witness ==
    /\ Done /\ ~outcome.ok /\ outcome.err = ErrForbiddenSig
    /\ tried # <<>>
    /\ tried[Len(tried)].anchor
    /\ tried[Len(tried)].child # leaf

\* the bound on the recursion the model follows is never met
StackWithinBound == Len(stack) < MaxStack

-----------------------------------------------------------------------------
(* The basic run: the admission predicates are applied, at every validation *)
(* time, to a CA certificate whose validity dates or serial number vary.    *)

\* the last DateTime of the basic run
MaxTime == 5

\* the Times that can be constructed for the DateTimes 0..MaxTime
Times ==
    UNION { { t[1] : t \in { UtcTime_new(dt) } \ { <<>> } } : dt \in 0..MaxTime }
    \cup { GeneralizedTime(dt) : dt \in 0..MaxTime }

\* a serial of n octets in its shortest encoding, given its first octet
Serial(first, n) ==
    [i \in 1..n |-> IF i = 1 THEN first
                    ELSE IF i = 2 /\ first = 0 THEN 128
                    ELSE IF i = 2 /\ first = 255 THEN 127
                    ELSE 200]

Serials ==
    { <<>> } \cup { Serial(first, n) : first \in {0, 1, 127, 128, 255},
                                      n \in {1, 2, 20, 21, 22} }

DatedCertificates ==
    { [CaCert EXCEPT !.not_before = nb, !.not_after = na] : nb \in Times, na \in Times }

SerialCertificates == { [CaCert EXCEPT !.serial = sn] : sn \in Serials }

InitBasic ==
    /\ policy \in { Policy_new(DnsSubject(TheName), t, <<>>) : t \in 0..MaxTime }
    /\ cert \in DatedCertificates \cup SerialCertificates
    /\ child = EeCert
    /\ depth = 0
    /\ op = "none"
    /\ res = None
    /\ ops_calls = <<>>
    /\ ChainIdle
    /\ FnIdle

SpecBasic == InitBasic /\ [][Next]_vars

-----------------------------------------------------------------------------
(* The date run: a Time is constructed from a DateTime and handed to        *)
(* permits_validity_date.                                                  *)

\* the last DateTime of the date run
MaxDate == 29

InitDates ==
    /\ policy = DefaultPolicy
    /\ fn = "none"
    /\ arg \in 0..MaxDate
    /\ out = None
    /\ PolicyIdle
    /\ ChainIdle

UtcTimeNew ==
    /\ fn = "none"
    /\ fn' = "UtcTime::new"
    /\ out' = UtcTime_new(arg)
    /\ UNCHANGED <<policy, policyVars, chainVars, arg>>

GeneralizedTimeNew ==
    /\ fn = "none"
    /\ fn' = "GeneralizedTime::new"
    /\ out' = << GeneralizedTime(arg) >>
    /\ UNCHANGED <<policy, policyVars, chainVars, arg>>

PermitsValidityDate ==
    /\ fn \in { "UtcTime::new", "GeneralizedTime::new" }
    /\ out # <<>>
    /\ fn' = "permits_validity_date"
    /\ out' = [time |-> out[1], res |-> permits_validity_date(out[1])]
    /\ UNCHANGED <<policy, policyVars, chainVars, arg>>

NextDates == UtcTimeNew \/ GeneralizedTimeNew \/ PermitsValidityDate

SpecDates == InitDates /\ [][NextDates]_vars

-----------------------------------------------------------------------------
(* The name run: a text is made into a DNSName or a DNSPattern, compared    *)
(* with a name or matched against one, alone or as an entry of a SAN.       *)

\* the longest text enumerated character by character
MaxText == 3

Alphabet == { "a", "A", "-", ".", "*" }

RECURSIVE TextsUpTo(_)
TextsUpTo(n) ==
    IF n = 0 THEN { <<>> }
    ELSE LET shorter == TextsUpTo(n - 1)
         IN  shorter \cup { Append(t, c) : t \in { u \in shorter : Len(u) = n - 1 },
                                           c \in Alphabet }

\* n times the character c
Repeat(c, n) == [i \in 1..n |-> c]

\* the labels joined by "."
RECURSIVE Join(_)
Join(labels) ==
    IF Len(labels) = 1 THEN labels[1]
    ELSE labels[1] \o << "." >> \o Join(Tail(labels))

\* texts at the limits of the lengths of a label and of a name
LongTexts ==
    { Repeat("a", 63), Repeat("a", 64),
      Join(<< Repeat("a", 63), Repeat("b", 63), Repeat("c", 63), Repeat("d", 61) >>),
      Join(<< Repeat("a", 63), Repeat("b", 63), Repeat("c", 63), Repeat("d", 62) >>),
      Join(<< Repeat("a", 63), Repeat("a", 63), Repeat("a", 63), Repeat("a", 63),
              Repeat("a", 63) >>),
      Join(<< Repeat("a", 64), << "c", "o", "m" >> >>),
      << "\t" >>, << " " >>, << "U+26A0", "U+FE0F" >> }

\* texts of the unit tests, and a few like them
TestTexts ==
    { << "e", "x", "a", "m", "p", "l", "e", ".", "c", "o", "m" >>,
      << "E", "X", "A", "M", "P", "L", "E", ".", "c", "o", "m" >>,
      << "f", "o", "o", ".", "e", "x", "a", "m", "p", "l", "e", ".", "c",
         "o", "m" >>,
      << "f", "o", "o", ".", "b", "a", "r", ".", "e", "x", "a", "m", "p",
         "l", "e", ".", "c", "o", "m" >>,
      << "l", "o", "c", "a", "l", "h", "o", "s", "t" >>,
      << "L", "O", "C", "A", "L", "H", "O", "S", "T" >>,
      << "x", "n", "-", "-", "b", "c", "h", "e", "r", "-", "k", "v", "a",
         ".", "e", "x", "a", "m", "p", "l", "e" >>,
      << "1", "2", "3", ".", "e", "x", "a", "m", "p", "l", "e", ".", "c",
         "o", "m" >>,
      << "-", "f", "o", "o", ".", "b", "a", "r", ".", "e", "x", "a", "m",
         "p", "l", "e", ".", "c", "o", "m" >>,
      << "f", "o", "o", "-", ".", "b", "a", "r", ".", "e", "x", "a", "m",
         "p", "l", "e", ".", "c", "o", "m" >>,
      << "f", "o", "o", ".", "b", "a", "r", "-", ".", "e", "x", "a", "m",
         "p", "l", "e", ".", "c", "o", "m" >>,
      << "a", ".", "a", "." >>,
      << "b", "a", "d", "!", "l", "a", "b", "e", "l" >>,
      << " ", "w", "h", "i", "t", "e", "s", "p", "a", "c", "e", " " >>,
      << "*", ".", "e", "x", "a", "m", "p", "l", "e", ".", "c", "o", "m" >>,
      << "*", ".", "l", "o", "c", "a", "l", "h", "o", "s", "t" >>,
      << "f", "*", "o", ".", "e", "x", "a", "m", "p", "l", "e", ".", "c",
         "o", "m" >>,
      << "*", "o", "o", ".", "e", "x", "a", "m", "p", "l", "e", ".", "c",
         "o", "m" >>,
      << "f", "o", "*", ".", "e", "x", "a", "m", "p", "l", "e", ".", "c",
         "o", "m" >>,
      << "f", "o", "o", ".", "*", ".", "e", "x", "a", "m", "p", "l", "e",
         ".", "c", "o", "m" >>,
      << "*", ".", "f", "o", "o", ".", "*", ".", "e", "x", "a", "m", "p",
         "l", "e", ".", "c", "o", "m" >>,
      << "*", "e", "s", "*", ".", "c", "r", "y", "p", "t", "o", "g", "r",
         "a", "p", "h", "y", ".", "i", "o" >>,
      << "*", ".", "c", "r", "y", "p", "t", "o", "g", "r", "a", "p", "h",
         "y", ".", "i", "o" >>,
      << "t", "e", "s", "t", ".", "c", "r", "y", "p", "t", "o", "g", "r",
         "a", "p", "h", "y", ".", "i", "o" >>,
      << "a", ".", "a", ".", "a" >>,
      << "A", ".", "A", ".", "a" >>,
      << "*", ".", "a", ".", "a" >> }

\* the names a text is compared with or matched against
NameTexts ==
    { << "a" >>,
      << "A" >>,
      << "a", "a" >>,
      << "a", ".", "a" >>,
      << "A", ".", "a" >>,
      << "a", ".", "A" >>,
      << "a", ".", "a", ".", "a" >>,
      << "a", ".", "A", ".", "a" >>,
      << "a", "-", "a" >>,
      << "l", "o", "c", "a", "l", "h", "o", "s", "t" >>,
      << "e", "x", "a", "m", "p", "l", "e", ".", "c", "o", "m" >>,
      << "E", "X", "A", "M", "P", "L", "E", ".", "c", "o", "m" >>,
      << "f", "o", "o", ".", "e", "x", "a", "m", "p", "l", "e", ".", "c",
         "o", "m" >>,
      << "f", "o", "o", ".", "b", "a", "r", ".", "e", "x", "a", "m", "p",
         "l", "e", ".", "c", "o", "m" >>,
      << "t", "e", "s", "t", ".", "c", "r", "y", "p", "t", "o", "g", "r",
         "a", "p", "h", "y", ".", "i", "o" >> }

Texts == TextsUpTo(MaxText) \cup LongTexts \cup TestTexts

Localhost == << 127, 0, 0, 1 >>

\* the SANs made of the text as a dNSName and of a few iPAddress entries
SansOf(text) ==
    { <<>>, << DnsGN(text) >>, << IpGN(Localhost) >>, << IpGN(<< 10, 0, 0, 1 >>) >>,
      << IpGN(<< 127, 0, 0 >>) >>, << DnsGN(text), IpGN(Localhost) >>,
      << IpGN(<< 10, 0, 0, 1 >>), DnsGN(text) >> }

InitNames ==
    /\ policy = DefaultPolicy
    /\ fn = "none"
    /\ arg \in [text : Texts, other : NameTexts]
    /\ out = None
    /\ PolicyIdle
    /\ ChainIdle

DNSNameNew ==
    /\ fn = "none"
    /\ fn' = "DNSName::new"
    /\ out' = DNSName_new(arg.text)
    /\ UNCHANGED <<policy, policyVars, chainVars, arg>>

DNSNameEq ==
    /\ fn = "none"
    /\ DNSName_new(arg.text) # <<>>
    /\ fn' = "DNSName::eq"
    /\ out' = DNSName_eq(DNSName_new(arg.text)[1], DNSName_new(arg.other)[1])
    /\ UNCHANGED <<policy, policyVars, chainVars, arg>>

DNSNameParent ==
    /\ fn = "none"
    /\ DNSName_new(arg.text) # <<>>
    /\ fn' = "DNSName::parent"
    /\ out' = DNSName_parent(DNSName_new(arg.text)[1])
    /\ UNCHANGED <<policy, policyVars, chainVars, arg>>

DNSPatternNew ==
    /\ fn = "none"
    /\ fn' = "DNSPattern::new"
    /\ out' = DNSPattern_new(arg.text)
    /\ UNCHANGED <<policy, policyVars, chainVars, arg>>

DNSPatternMatches ==
    /\ fn = "none"
    /\ DNSPattern_new(arg.text) # <<>>
    /\ fn' = "DNSPattern::matches"
    /\ out' = DNSPattern_matches(DNSPattern_new(arg.text)[1], DNSName_new(arg.other)[1])
    /\ UNCHANGED <<policy, policyVars, chainVars, arg>>

SubjectMatches ==
    /\ fn = "none"
    /\ \E subject \in { DnsSubject(DNSName_new(arg.other)[1]), IpSubject(Localhost) },
          san \in SansOf(arg.text) :
          out' = [subject |-> subject, san |-> san,
                  matches |-> Subject_matches(subject, san)]
    /\ fn' = "Subject::matches"
    /\ UNCHANGED <<policy, policyVars, chainVars, arg>>

NextNames ==
    \/ DNSNameNew \/ DNSNameEq \/ DNSNameParent
    \/ DNSPatternNew \/ DNSPatternMatches \/ SubjectMatches

SpecNames == InitNames /\ [][NextNames]_vars

-----------------------------------------------------------------------------
(* The extension run: one ExtensionPolicy is applied to one certificate.    *)

Presences == { "Present", "MaybePresent", "NotPresent" }
Criticalities == { "Critical", "NonCritical", "Agnostic" }

\* the policies the three constructors build for a few OIDs and validators
ExtensionPolicies ==
    LET oids == { BASIC_CONSTRAINTS_OID, KEY_USAGE_OID, SUBJECT_ALTERNATIVE_NAME_OID }
        validators == { None, "ca::basic_constraints", "ee::basic_constraints",
                        "ca::key_usage", "ee::subject_alternative_name" }
    IN  { ExtensionPolicy_present(o, k, v) : o \in oids, k \in Criticalities, v \in validators }
        \cup { ExtensionPolicy_maybe_present(o, k, v) :
                  o \in oids, k \in Criticalities, v \in validators }
        \cup { ExtensionPolicy_not_present(o) : o \in oids }

InitExtension ==
    /\ policy = DefaultPolicy
    /\ fn = "none"
    /\ arg \in [ep : ExtensionPolicies, c : Deviate({CaCert, EeCert}, 1)]
    /\ out = None
    /\ PolicyIdle
    /\ ChainIdle

ApplyExtensionPolicy ==
    /\ fn = "none"
    /\ fn' = "ExtensionPolicy::permits"
    /\ out' = ExtensionPolicy_permits(arg.ep, policy, arg.c, arg.c.exts)
    /\ UNCHANGED <<policy, policyVars, chainVars, arg>>

NextExtension == ApplyExtensionPolicy

SpecExtension == InitExtension /\ [][NextExtension]_vars

-----------------------------------------------------------------------------
(* Properties of the extension run *)

Applied == fn = "ExtensionPolicy::permits"
TheExtension == arg.c.exts[arg.ep.oid]

CriticalityViolated ==
    \/ arg.ep.criticality = "Critical" /\ ~TheExtension.critical
    \/ arg.ep.criticality = "NonCritical" /\ TheExtension.critical

\* C11: applying one ExtensionPolicy yields ExtensionRequired for an absent
\* extension under Present and Ok for any other absent one, whatever validator
\* is set (it is not invoked); for a present extension ExtensionForbidden under
\* NotPresent, else CriticalityMismatch when the critical bit violates the
\* criticality, else the validator's result, or Ok when there is no validator.
C11_ExtensionPolicyPermits ==
    Applied =>
        /\ ~TheExtension.present /\ arg.ep.presence = "Present" => out = ErrExtRequired
        /\ ~TheExtension.present /\ arg.ep.presence # "Present" => out = Ok
        /\ TheExtension.present /\ arg.ep.presence = "NotPresent" => out = ErrExtForbidden
        /\ TheExtension.present /\ arg.ep.presence # "NotPresent" /\ CriticalityViolated
              => out = ErrCriticality
        /\ TheExtension.present /\ arg.ep.presence # "NotPresent" /\ ~CriticalityViolated
              => out = IF arg.ep.validator = None THEN Ok
                       ELSE RunValidator(arg.ep.validator, policy, arg.c, TheExtension)

\* an absent extension under MaybePresent with a validator that would reject it
C11_Witness ==
    /\ Applied
    /\ ~TheExtension.present
    /\ arg.ep.presence = "MaybePresent"
    /\ arg.ep.validator # None
    /\ RunValidator(arg.ep.validator, policy, arg.c, TheExtension) # Ok
    /\ out = Ok

-----------------------------------------------------------------------------
(* Properties of the basic run and of the date run *)

\* the certificate is the well-formed CA certificate but for its dates
OnlyDatesVary ==
    [cert EXCEPT !.not_before = CaCert.not_before, !.not_after = CaCert.not_after] = CaCert

\* the certificate is the well-formed CA certificate but for its serial
OnlySerialVaries == [cert EXCEPT !.serial = CaCert.serial] = CaCert

EncodingPermitted(t) ==
    \/ t.kind = "UtcTime" /\ Year(t.dt) < 2050
    \/ t.kind = "GeneralizedTime" /\ Year(t.dt) >= 2050

InWindow ==
    /\ cert.not_before.dt <= policy.validation_time
    /\ policy.validation_time <= cert.not_after.dt

\* C12: permits_basic accepts the validity window of an otherwise acceptable
\* certificate with permitted date encodings exactly when
\* notBefore <= validation_time <= notAfter, both ends included, and rejects it
\* as not valid at validation time otherwise, one second outside included.
C12_ValidityWindow ==
    ( /\ op = "permits_basic"
      /\ OnlyDatesVary
      /\ EncodingPermitted(cert.not_before)
      /\ EncodingPermitted(cert.not_after) )
    => /\ res = Ok <=> InWindow
       /\ res = ErrNotValidNow <=> ~InWindow
       /\ policy.validation_time \in { cert.not_before.dt, cert.not_after.dt }
             /\ cert.not_before.dt <= cert.not_after.dt => res = Ok
       /\ policy.validation_time = cert.not_after.dt + 1 => res # Ok
       /\ policy.validation_time = cert.not_before.dt - 1 => res # Ok

\* validation_time equal to notAfter, later than notBefore, is accepted
C12_Witness ==
    /\ op = "permits_basic"
    /\ OnlyDatesVary
    /\ cert.not_before.dt < cert.not_after.dt
    /\ policy.validation_time = cert.not_after.dt
    /\ res = Ok

\* C13: permits_validity_date(t) succeeds if and only if t is a UTCTime of a
\* year before 2050 or a GeneralizedTime of the year 2050 or later; no UTCTime
\* of the year 2050 or later can be constructed.
C13_ValidityDate ==
    /\ fn = "permits_validity_date" => (out.res = Ok <=> EncodingPermitted(out.time))
    /\ fn = "UtcTime::new" => (out = <<>> <=> Year(arg) >= 2050)

\* a GeneralizedTime in the year 2050 itself is permitted
C13_Witness ==
    /\ fn = "permits_validity_date"
    /\ out.time.kind = "GeneralizedTime"
    /\ Year(out.time.dt) = 2050
    /\ out.res = Ok

\* the serial number as an integer is greater than zero
SerialPositive(serial_bytes) ==
    /\ Len(serial_bytes) >= 1
    /\ serial_bytes[1] < 128
    /\ \E i \in 1..Len(serial_bytes) : serial_bytes[i] # 0

\* C14 as claimed: every certificate permits_basic accepts has a positive
\* serial of 1..21 octets, and a zero, negative, empty or longer serial is
\* rejected.
C14_AsClaimed ==
    op = "permits_basic" /\ OnlySerialVaries /\ InWindow
    => (res = Ok <=> /\ SerialPositive(cert.serial)
                     /\ Len(cert.serial) \in 1..21)

\* C14: every certificate permits_basic accepts has a serial of 1..21 octets
\* whose first octet has its high bit clear, that is a serial that is not
\* negative, zero included; an otherwise acceptable certificate is rejected
\* exactly when its serial is empty, longer than 21 octets or negative.
C14_Serial ==
    /\ op = "permits_basic" /\ res = Ok
          => Len(cert.serial) \in 1..21 /\ cert.serial[1] < 128
    /\ op = "permits_basic" /\ OnlySerialVaries /\ InWindow
          => /\ res = Ok <=> (Len(cert.serial) \in 1..21 /\ cert.serial[1] < 128)
             /\ res = ErrSerialLen <=> Len(cert.serial) \notin 1..21
             /\ res = ErrSerialNeg <=> (Len(cert.serial) \in 1..21 /\ cert.serial[1] >= 128)

\* a serial of 21 octets, the first of them zero, is accepted
C14_Witness ==
    /\ op = "permits_basic"
    /\ Len(cert.serial) = 21
    /\ cert.serial[1] = 0
    /\ res = Ok

-----------------------------------------------------------------------------
(* Properties of the name run *)

\* each upper-case letter of ASCII with its lower-case letter
CasePairs ==
    { << "A", "a" >>, << "B", "b" >>, << "C", "c" >>, << "D", "d" >>, <<
      "E", "e" >>, << "F", "f" >>, << "G", "g" >>, << "H", "h" >>, << "I",
      "i" >>, << "J", "j" >>, << "K", "k" >>, << "L", "l" >>, << "M", "m"
      >>, << "N", "n" >>, << "O", "o" >>, << "P", "p" >>, << "Q", "q" >>, <<
      "R", "r" >>, << "S", "s" >>, << "T", "t" >>, << "U", "u" >>, << "V",
      "v" >>, << "W", "w" >>, << "X", "x" >>, << "Y", "y" >>, << "Z", "z" >> }

Fold(c) ==
    IF \E q \in CasePairs : q[1] = c THEN (CHOOSE q \in CasePairs : q[1] = c)[2] ELSE c

Unfold(c) ==
    IF \E q \in CasePairs : q[2] = c THEN (CHOOSE q \in CasePairs : q[2] = c)[1] ELSE c

\* the text after ASCII case folding, and the text in upper case
FoldText(t) == [i \in 1..Len(t) |-> Fold(t[i])]
UpperText(t) == [i \in 1..Len(t) |-> Unfold(t[i])]

\* [A-Za-z0-9-]
LabelCharacters ==
    { "a", "b", "c", "d", "e", "f", "g", "h", "i", "j", "k", "l", "m", "n",
      "o", "p", "q", "r", "s", "t", "u", "v", "w", "x", "y", "z", "A", "B",
      "C", "D", "E", "F", "G", "H", "I", "J", "K", "L", "M", "N", "O", "P",
      "Q", "R", "S", "T", "U", "V", "W", "X", "Y", "Z", "0", "1", "2", "3",
      "4", "5", "6", "7", "8", "9", "-" }

\* the positions around the labels of a text: before it, its dots, after it
Cuts(t) == { 0, Len(t) + 1 } \cup { i \in 1..Len(t) : t[i] = "." }

\* the labels of a text: what lies between two neighbouring cuts
LabelsOf(t) ==
    { SubSeq(t, q[1] + 1, q[2] - 1) :
        q \in { r \in Cuts(t) \X Cuts(t) :
                   /\ r[1] < r[2]
                   /\ \A y \in Cuts(t) : ~(r[1] < y /\ y < r[2]) } }

\* the rule of a DNS name as the claims state it
ValidName(t) ==
    /\ Len(t) >= 1 /\ Len(t) <= 253
    /\ \A label \in LabelsOf(t) :
          /\ Len(label) >= 1 /\ Len(label) <= 63
          /\ \A i \in 1..Len(label) : label[i] \in LabelCharacters
          /\ label[1] # "-" /\ label[Len(label)] # "-"

\* the text is "*." followed by something
StarDot(t) == Len(t) >= 2 /\ t[1] = "*" /\ t[2] = "."
AfterStarDot(t) == SubSeq(t, 3, Len(t))

\* what follows the first "." of a name that has one
HasDot(t) == \E i \in 1..Len(t) : t[i] = "."
AfterFirstDot(t) ==
    LET k == CHOOSE i \in 1..Len(t) : t[i] = "." /\ \A j \in 1..(i - 1) : t[j] # "."
    IN  SubSeq(t, k + 1, Len(t))

\* how many labels of m stand in front of n, when m ends with "." and n
LabelsInFront(m, n) ==
    { k \in 1..Len(m) : m[k] = "." /\ FoldText(SubSeq(m, k + 1, Len(m))) = FoldText(n) }

\* a SAN entry matches a subject, as the claim states it
EntryMatches(subject, g) ==
    \/ /\ subject.kind = "DNS"
       /\ g.tag = "DNSName"
       /\ IF StarDot(g.name)
          THEN /\ ValidName(AfterStarDot(g.name))
               /\ HasDot(subject.name)
               /\ FoldText(AfterFirstDot(subject.name)) = FoldText(AfterStarDot(g.name))
          ELSE /\ ValidName(g.name)
               /\ FoldText(g.name) = FoldText(subject.name)
    \/ /\ subject.kind = "IP"
       /\ g.tag = "IPAddress"
       /\ Len(g.addr) \in { 4, 16 }
       /\ g.addr = subject.addr

\* C16: Subject::matches(san) is true if and only if some entry of the SAN is
\* a dNSName that is a valid pattern matching the DNS subject, or an iPAddress
\* that is a valid address equal to the IP subject; a DNS subject matches no
\* iPAddress entry, an IP subject no dNSName entry, and a dNSName that is not
\* a valid pattern matches nothing.
C16_SubjectMatches ==
    fn = "Subject::matches" =>
        /\ out.matches <=> \E i \in 1..Len(out.san) : EntryMatches(out.subject, out.san[i])
        /\ ( /\ out.subject.kind = "DNS"
             /\ \A i \in 1..Len(out.san) : out.san[i].tag = "IPAddress" ) => ~out.matches
        /\ ( /\ out.subject.kind = "IP"
             /\ \A i \in 1..Len(out.san) : out.san[i].tag = "DNSName" ) => ~out.matches
        /\ ( /\ out.subject.kind = "DNS"
             /\ \A i \in 1..Len(out.san) :
                   out.san[i].tag = "DNSName" => DNSPattern_new(out.san[i].name) = <<>> )
           => ~out.matches

\* a wildcard entry behind an iPAddress entry matches a DNS subject
C16_Witness ==
    /\ fn = "Subject::matches"
    /\ out.subject.kind = "DNS"
    /\ Len(out.san) = 2
    /\ out.san[1].tag = "IPAddress"
    /\ StarDot(out.san[2].name)
    /\ out.matches

ThePattern == DNSPattern_new(arg.text)[1]

\* C17: for valid names n and m, Exact(n) matches m iff n = m without regard
\* to case, and Wildcard(n) matches m iff the parent of m is n; so a wildcard
\* matches no single-label name, not its own base name, and no name with two
\* or more labels in front of n.
C17_PatternMatches ==
    fn = "DNSPattern::matches" =>
        /\ ThePattern.kind = "Exact"
              => (out <=> FoldText(ThePattern.name) = FoldText(arg.other))
        /\ ThePattern.kind = "Wildcard"
              => /\ out <=> /\ HasDot(arg.other)
                            /\ FoldText(AfterFirstDot(arg.other)) = FoldText(ThePattern.name)
                 /\ ~HasDot(arg.other) => ~out
                 /\ FoldText(arg.other) = FoldText(ThePattern.name) => ~out
                 /\ out => Cardinality(LabelsInFront(arg.other, ThePattern.name)) >= 1
                 /\ ( \E k \in LabelsInFront(arg.other, ThePattern.name) :
                         HasDot(SubSeq(arg.other, 1, k - 1)) ) => ~out

\* a wildcard refuses a name two labels below its base
C17_Witness ==
    /\ fn = "DNSPattern::matches"
    /\ ThePattern.kind = "Wildcard"
    /\ \E k \in LabelsInFront(arg.other, ThePattern.name) : HasDot(SubSeq(arg.other, 1, k - 1))
    /\ ~out

\* the text has a "*" that is not the whole of its leftmost label
StrayStar(t) ==
    \E i \in 1..Len(t) :
        /\ t[i] = "*"
        /\ ~(i = 1 /\ Len(t) >= 2 /\ t[2] = ".")

\* C18: DNSPattern::new(s) is Wildcard(n) iff s is "*." followed by a valid
\* name n, Exact(n) iff s is itself a valid name n, and None otherwise; every
\* text with a "*" elsewhere than as its complete leftmost label is refused.
C18_PatternNew ==
    fn = "DNSPattern::new" =>
        /\ StarDot(arg.text) /\ ValidName(AfterStarDot(arg.text))
              => out = << [kind |-> "Wildcard", name |-> AfterStarDot(arg.text)] >>
        /\ ValidName(arg.text) => out = << [kind |-> "Exact", name |-> arg.text] >>
        /\ ~ValidName(arg.text) /\ ~(StarDot(arg.text) /\ ValidName(AfterStarDot(arg.text)))
              => out = <<>>
        /\ StrayStar(arg.text) => out = <<>>
        /\ Len(arg.text) <= 1 /\ StarDot(arg.text) => out = <<>>

\* a text with a second "*" further right is refused
C18_Witness ==
    /\ fn = "DNSPattern::new"
    /\ StarDot(arg.text)
    /\ StrayStar(arg.text)
    /\ out = <<>>

C20_NameEquality ==
    fn = "DNSName::eq" =>
        /\ out <=> FoldText(arg.text) = FoldText(arg.other)
        /\ out <=> DNSName_eq(arg.other, arg.text)
        /\ DNSName_eq(arg.text, arg.text)
        /\ DNSName_new(UpperText(arg.text)) # <<>>
        /\ DNSName_eq(arg.text, DNSName_new(UpperText(arg.text))[1])
        /\ \A z \in NameTexts : out /\ DNSName_eq(arg.other, z) => DNSName_eq(arg.text, z)

\* two spellings of one name that differ in case are equal
C20_Witness ==
    /\ fn = "DNSName::eq"
    /\ arg.text # arg.other
    /\ out

-----------------------------------------------------------------------------
(* PKCS#7 (src/rust/src/pkcs7.rs).  A byte string is the sequence of its    *)
(* bytes, each written as the character it encodes.                        *)

CR == "\r"
LF == "\n"

\* b"Content-Type: text/plain\r\n\r\n"
Header ==
    << "C", "o", "n", "t", "e", "n", "t", "-", "T", "y", "p", "e", ":", " ",
       "t", "e", "x", "t", "/", "p", "l", "a", "i", "n", CR, LF, CR, LF >>

\* the slice data[from..to]: the bytes at the 0-based indices from .. to - 1
slice(data, from, to) == SubSeq(data, from + 1, to)

\* the loop of smime_canonicalize, at index i, that turns every LF into CR LF
RECURSIVE canonicalize_loop_every_lf(_, _, _, _, _)
canonicalize_loop_every_lf(data, i, last_idx, with_header, without_header) ==
    IF i = Len(data)
    THEN [with_header |-> with_header, without_header |-> without_header,
          last_idx |-> last_idx]
    ELSE IF data[i + 1] = LF
    THEN canonicalize_loop_every_lf(data, i + 1, i + 1,
             with_header \o slice(data, last_idx, i) \o << CR, LF >>,
             without_header \o slice(data, last_idx, i) \o << CR, LF >>)
    ELSE canonicalize_loop_every_lf(data, i + 1, last_idx, with_header, without_header)

\* the loop of smime_canonicalize, at index i: the two outputs built so far
\* and last_idx
RECURSIVE canonicalize_loop(_, _, _, _, _)
canonicalize_loop(data, i, last_idx, with_header, without_header) ==
    IF i = Len(data)
    THEN [with_header |-> with_header, without_header |-> without_header,
          last_idx |-> last_idx]
    ELSE IF data[i + 1] = LF /\ (i = 0 \/ data[i] # CR)
    THEN canonicalize_loop(data, i + 1, i + 1,
             with_header \o slice(data, last_idx, i) \o << CR, LF >>,
             without_header \o slice(data, last_idx, i) \o << CR, LF >>)
    ELSE canonicalize_loop(data, i + 1, last_idx, with_header, without_header)

\* after the loop: the rest of data is copied if anything was written, and
\* data itself is returned (borrowed) if nothing was
canonicalize_rest(data, r) ==
    IF r.with_header # <<>>
    THEN [with_header |-> r.with_header \o slice(data, r.last_idx, Len(data)),
          without_header |-> r.without_header \o slice(data, r.last_idx, Len(data))]
    ELSE [with_header |-> data, without_header |-> data]

\* smime_canonicalize that writes the header whatever text_mode is
smime_canonicalize_header_always(data, text_mode) ==
    canonicalize_rest(data, canonicalize_loop(data, 0, 0, Header, <<>>))

smime_canonicalize(data, text_mode) ==
    canonicalize_rest(data,
        canonicalize_loop(data, 0, 0, IF text_mode THEN Header ELSE <<>>, <<>>))

starts_with(data, prefix) ==
    Len(data) >= Len(prefix) /\ SubSeq(data, 1, Len(prefix)) = prefix

\* "Remove the header if text_mode is true"
remove_header(data, text_mode) ==
    IF text_mode /\ starts_with(data, Header)
    THEN slice(data, Len(Header), Len(data))
    ELSE data

\* the loop of smime_decanonicalize, at index i: new_data and last_idx
RECURSIVE decanonicalize_loop(_, _, _, _)
decanonicalize_loop(data, i, last_idx, new_data) ==
    IF i = Len(data)
    THEN [new_data |-> new_data, last_idx |-> last_idx]
    ELSE IF data[i + 1] = LF /\ i > 0 /\ data[i] = CR
    THEN decanonicalize_loop(data, i + 1, i + 1,
             new_data \o slice(data, last_idx, i - 1) \o << LF >>)
    ELSE decanonicalize_loop(data, i + 1, last_idx, new_data)

\* smime_decanonicalize without "Copy the remaining data"
decanonicalize_rest_dropped(data, r) == r.new_data

\* "Copy the remaining data"
decanonicalize_rest(data, r) ==
    IF r.last_idx < Len(data)
    THEN r.new_data \o slice(data, r.last_idx, Len(data))
    ELSE r.new_data

\* the body of smime_decanonicalize once the header is dealt with
remove_cr(data) ==
    decanonicalize_rest(data, decanonicalize_loop(data, 0, 0, <<>>))

\* smime_decanonicalize that leaves the header where it is
smime_decanonicalize_keeps_header(data, text_mode) == remove_cr(data)

smime_decanonicalize(data, text_mode) == remove_cr(remove_header(data, text_mode))

-----------------------------------------------------------------------------
(* The canonicalization run: a byte string is canonicalized or              *)
(* decanonicalized, and a canonical one is decanonicalized or canonicalized *)
(* once more.                                                               *)

MaxBytes == 4

Bytes == { CR, LF, "a" }

RECURSIVE ByteStringsUpTo(_)
ByteStringsUpTo(n) ==
    IF n = 0 THEN { <<>> }
    ELSE LET shorter == ByteStringsUpTo(n - 1)
         IN  shorter \cup { Append(t, c) : t \in { u \in shorter : Len(u) = n - 1 },
                                           c \in Bytes }

\* short byte strings, alone and behind the header
ByteStrings ==
    ByteStringsUpTo(MaxBytes) \cup { Header \o t : t \in ByteStringsUpTo(MaxBytes - 1) }

InitSmime ==
    /\ policy = DefaultPolicy
    /\ fn = "none"
    /\ arg \in [data : ByteStrings, text_mode : BOOLEAN]
    /\ out = None
    /\ PolicyIdle
    /\ ChainIdle

SmimeCanonicalize ==
    /\ fn = "none"
    /\ fn' = "smime_canonicalize"
    /\ out' = smime_canonicalize(arg.data, arg.text_mode)
    /\ UNCHANGED <<policy, policyVars, chainVars, arg>>

SmimeDecanonicalize ==
    /\ fn = "none"
    /\ fn' = "smime_decanonicalize"
    /\ out' = smime_decanonicalize(arg.data, arg.text_mode)
    /\ UNCHANGED <<policy, policyVars, chainVars, arg>>

\* the with-header output is decanonicalized, as after a decryption
DecanonicalizeCanonical ==
    /\ fn = "smime_canonicalize"
    /\ fn' = "smime_canonicalize, smime_decanonicalize"
    /\ out' = [canonical |-> out,
               plain |-> smime_decanonicalize(out.with_header, arg.text_mode)]
    /\ UNCHANGED <<policy, policyVars, chainVars, arg>>

\* the without-header output is canonicalized once more
CanonicalizeCanonical ==
    /\ fn = "smime_canonicalize"
    /\ fn' = "smime_canonicalize, smime_canonicalize"
    /\ out' = [canonical |-> out,
               again |-> smime_canonicalize(out.without_header, arg.text_mode)]
    /\ UNCHANGED <<policy, policyVars, chainVars, arg>>

NextSmime ==
    \/ SmimeCanonicalize \/ SmimeDecanonicalize
    \/ DecanonicalizeCanonical \/ CanonicalizeCanonical

SpecSmime == InitSmime /\ [][NextSmime]_vars

-----------------------------------------------------------------------------
(* Properties of the canonicalization run *)

RECURSIVE Concat(_)
Concat(pieces) ==
    IF pieces = <<>> THEN <<>> ELSE Head(pieces) \o Concat(Tail(pieces))

\* the byte at i is a line feed with no carriage return right before it
BareLfAt(x, i) == x[i] = LF /\ (i = 1 \/ x[i - 1] # CR)

\* the bytes at i and i + 1 are a carriage return and a line feed
CrLfAt(x, i) == x[i] = CR /\ i < Len(x) /\ x[i + 1] = LF

\* x with CR LF for every bare line feed
WithCrLf(x) ==
    Concat([i \in 1..Len(x) |-> IF BareLfAt(x, i) THEN << CR, LF >> ELSE << x[i] >>])

\* x with LF for every pair CR LF
WithLf(x) ==
    Concat([i \in 1..Len(x) |-> IF CrLfAt(x, i) THEN <<>> ELSE << x[i] >>])

HasHeader(x) == Len(x) >= Len(Header) /\ \A i \in 1..Len(Header) : x[i] = Header[i]

AfterHeader(x) == [i \in 1..(Len(x) - Len(Header)) |-> x[i + Len(Header)]]

\* C21: smime_canonicalize(x, text_mode) returns without_header = x with CR LF
\* for every line feed not right after a carriage return, every other byte
\* kept in order, and with_header = the header followed by without_header when
\* text_mode is true, without_header itself when it is false.
C21_Canonicalize ==
    fn = "smime_canonicalize" =>
        /\ out.without_header = WithCrLf(arg.data)
        /\ out.with_header = IF arg.text_mode
                             THEN Header \o WithCrLf(arg.data)
                             ELSE WithCrLf(arg.data)

\* text mode, and an input with a bare line feed and a pair to keep
C21_Witness ==
    /\ fn = "smime_canonicalize"
    /\ arg.text_mode
    /\ \E i \in 1..Len(arg.data) : BareLfAt(arg.data, i)
    /\ \E i \in 1..Len(arg.data) : CrLfAt(arg.data, i)
    /\ out.with_header = Header \o out.without_header

\* no carriage return of x stands without a line feed right after it
NoBareCr(x) == \A i \in 1..Len(x) : x[i] = CR => CrLfAt(x, i)

\* no carriage return of x has a line feed right after it
NoCrLf(x) == \A i \in 1..Len(x) : ~CrLfAt(x, i)

RoundTrip == fn = "smime_canonicalize, smime_decanonicalize" /\ ~arg.text_mode

\* C22 as claimed: with text mode off, a byte string with no bare carriage
\* return comes back from canonicalize and decanonicalize as it was.
C22_AsClaimed ==
    RoundTrip /\ NoBareCr(arg.data) => out.plain = arg.data

\* C22 amended: with text mode off, a byte string comes back from canonicalize
\* and decanonicalize as it was if and only if none of its carriage returns is
\* followed by a line feed; every pair CR LF comes back as LF.
C22_RoundTrip ==
    RoundTrip =>
        /\ out.plain = arg.data <=> NoCrLf(arg.data)
        /\ out.plain = WithLf(arg.data)

\* a byte string with a bare carriage return and a bare line feed comes back
C22_Witness ==
    /\ RoundTrip
    /\ ~NoBareCr(arg.data)
    /\ \E i \in 1..Len(arg.data) : BareLfAt(arg.data, i)
    /\ out.plain = arg.data

\* C23: smime_decanonicalize(d, text_mode) removes the header from the front
\* of d only when text_mode is true and d starts with it, and then puts LF for
\* every pair CR LF, every other byte kept in order.
C23_Decanonicalize ==
    fn = "smime_decanonicalize" =>
        out = WithLf(IF arg.text_mode /\ HasHeader(arg.data)
                     THEN AfterHeader(arg.data)
                     ELSE arg.data)

\* the header is removed and, behind it, a pair shrinks and a bare line feed
\* stays
C23_Witness ==
    /\ fn = "smime_decanonicalize"
    /\ arg.text_mode /\ HasHeader(arg.data)
    /\ \E i \in 1..Len(AfterHeader(arg.data)) : BareLfAt(AfterHeader(arg.data), i)
    /\ \E i \in 1..Len(AfterHeader(arg.data)) : CrLfAt(AfterHeader(arg.data), i)
    /\ Len(out) = Len(arg.data) - Len(Header) - 1

\* C29: the without-header output y of smime_canonicalize(x, false) has no
\* line feed without a carriage return right before it, and
\* smime_canonicalize(y, false) returns y for both outputs.
C29_Idempotent ==
    fn = "smime_canonicalize, smime_canonicalize" /\ ~arg.text_mode =>
        /\ \A i \in 1..Len(out.canonical.without_header) :
              ~BareLfAt(out.canonical.without_header, i)
        /\ out.again.without_header = out.canonical.without_header
        /\ out.again.with_header = out.canonical.without_header

\* the first pass changed the input and the second changed nothing
C29_Witness ==
    /\ fn = "smime_canonicalize, smime_canonicalize" /\ ~arg.text_mode
    /\ out.canonical.without_header # arg.data
    /\ out.again = out.canonical

-----------------------------------------------------------------------------
(* PKCS#7 EnvelopedData.  The parsed ContentInfo stands for its DER bytes;  *)
(* bytes that are no ContentInfo have wellformed = FALSE.  A key pair is    *)
(* named once: the private key "kA" undoes what the public key "kA" did.    *)
(* A primitive given the wrong key either fails or returns garbage,         *)
(* whichever `luck` says.                                                   *)

\* the PKCS7Options that the encryption and the decryption read
PKCS7_TEXT == "Text"
PKCS7_BINARY == "Binary"

\* how a call ended: a value returned, an error returned, or a panic; calls
\* are the calls made on the private key and on the cipher, in order
Returned(value, calls) == [kind |-> "Ok", value |-> value, err |-> None, calls |-> calls]
Raised(err, calls) == [kind |-> "Err", value |-> None, err |-> err, calls |-> calls]
Panicked(calls) == [kind |-> "Panic", value |-> None, err |-> None, calls |-> calls]

\* public_key.encrypt(key, PKCS1v15) and private_key.decrypt(.., PKCS1v15):
\* Some(key) as << key >>, an error as <<>>
rsa_encrypt(public_key, key) == [to |-> public_key, key |-> key]
rsa_decrypt(private_key, encrypted_key, luck) ==
    IF encrypted_key.to = private_key THEN << encrypted_key.key >>
    ELSE IF luck = "garbage" THEN << "junk" >>
    ELSE <<>>

\* pkcs12::symmetric_encrypt and symmetric_decrypt with AES-128 in CBC mode
symmetric_encrypt(key, iv, data) == [key |-> key, iv |-> iv, data |-> data]
symmetric_decrypt(key, iv, encrypted_content, luck) ==
    IF encrypted_content.key = key /\ encrypted_content.iv = iv
    THEN << encrypted_content.data >>
    ELSE IF luck = "garbage" THEN << << "?" >> >>
    ELSE <<>>

\* encrypt_and_serialize that encrypts the output without the header
data_to_encrypt_without_header(raw_data, options) ==
    IF PKCS7_BINARY \in options THEN raw_data
    ELSE smime_canonicalize(raw_data, PKCS7_TEXT \in options).without_header

\* data_with_header of encrypt_and_serialize
data_to_encrypt(raw_data, options) ==
    IF PKCS7_BINARY \in options THEN raw_data
    ELSE smime_canonicalize(raw_data, PKCS7_TEXT \in options).with_header

\* the RecipientInfo that encrypt_and_serialize makes for a certificate
recipient_info(c, key) ==
    [ version |-> 0,
      issuer_and_serial_number |-> [issuer |-> c.issuer, serial_number |-> c.serial],
      key_encryption_algorithm |-> "Rsa+NULL",
      encrypted_key |-> rsa_encrypt(c.public_key, key) ]

\* the ContentInfo that encrypt_and_serialize writes; recipient_infos are in
\* the order of the encoding
EnvelopedData(recipient_infos, iv, encrypted_content) ==
    [ wellformed |-> TRUE,
      content |-> "EnvelopedData",
      version |-> 0,
      recipient_infos |-> recipient_infos,
      content_encryption_algorithm |-> [params |-> "Aes128Cbc", iv |-> iv],
      encrypted_content |-> << encrypted_content >> ]

\* the orders in which a SET OF with these elements can be encoded: DER sorts
\* the elements by their encodings
SetOfWriter(elements) ==
    { q \in [1..Len(elements) -> { elements[i] : i \in 1..Len(elements) }] :
        \A i \in 1..Len(elements) : \E j \in 1..Len(elements) : q[j] = elements[i] }

\* every encoding that encrypt_and_serialize can write for these inputs
encrypt_and_serialize(raw_data, recipients, options, key, iv) ==
    { EnvelopedData(recipient_infos, iv,
                    symmetric_encrypt(key, iv, data_to_encrypt(raw_data, options))) :
        recipient_infos \in
            SetOfWriter([i \in 1..Len(recipients) |-> recipient_info(recipients[i], key)]) }

\* Iterator::find that returns the last match
find_last(recipient_infos, serial) ==
    IF \E i \in 1..Len(recipient_infos) :
          recipient_infos[i].issuer_and_serial_number.serial_number = serial
    THEN << recipient_infos[
              CHOOSE i \in 1..Len(recipient_infos) :
                  /\ recipient_infos[i].issuer_and_serial_number.serial_number = serial
                  /\ \A j \in (i + 1)..Len(recipient_infos) :
                        recipient_infos[j].issuer_and_serial_number.serial_number # serial] >>
    ELSE <<>>

\* recipient_infos.find(|info| info...serial_number == recipient_serial_number)
find(recipient_infos, serial) ==
    IF \E i \in 1..Len(recipient_infos) :
          recipient_infos[i].issuer_and_serial_number.serial_number = serial
    THEN << recipient_infos[
              CHOOSE i \in 1..Len(recipient_infos) :
                  /\ recipient_infos[i].issuer_and_serial_number.serial_number = serial
                  /\ \A j \in 1..(i - 1) :
                        recipient_infos[j].issuer_and_serial_number.serial_number # serial] >>
    ELSE <<>>

\* "Return content in different form, based on options"
plain_data(plain_content, options) ==
    IF PKCS7_BINARY \in options THEN plain_content
    ELSE smime_decanonicalize(plain_content, PKCS7_TEXT \in options)

\* the end of the EnvelopedData arm: symmetric_decrypt has been called
decrypted(decrypted_content, options, calls) ==
    IF decrypted_content = <<>> THEN Raised("ValueError", calls)
    ELSE Returned(plain_data(decrypted_content[1], options), calls)

\* decrypt_content that takes AES-CBC with a key of any length
decrypt_content_any_aes(enveloped_data, key, options, luck, calls) ==
    IF enveloped_data.encrypted_content = <<>> THEN Panicked(calls)
    ELSE decrypted(symmetric_decrypt(key, enveloped_data.content_encryption_algorithm.iv,
                                     enveloped_data.encrypted_content[1], luck),
                   options,
                   Append(calls, [call |-> "symmetric_decrypt",
                                  data |-> enveloped_data.encrypted_content[1]]))

\* the EnvelopedData arm once the key is there: the algorithm, the content
decrypt_content(enveloped_data, key, options, luck, calls) ==
    IF enveloped_data.content_encryption_algorithm.params # "Aes128Cbc"
    THEN Raised("UnsupportedAlgorithm", calls)
    ELSE IF enveloped_data.encrypted_content = <<>> THEN Panicked(calls)
    ELSE decrypted(symmetric_decrypt(key, enveloped_data.content_encryption_algorithm.iv,
                                     enveloped_data.encrypted_content[1], luck),
                   options,
                   Append(calls, [call |-> "symmetric_decrypt",
                                  data |-> enveloped_data.encrypted_content[1]]))

\* the EnvelopedData arm once private_key.decrypt has been called
unwrapped(enveloped_data, key, options, luck, calls) ==
    IF key = <<>> THEN Raised("ValueError", calls)
    ELSE decrypt_content(enveloped_data, key[1], options, luck, calls)

\* the EnvelopedData arm once the recipient has been looked up
with_recipient(enveloped_data, found_recipient_info, private_key, options, luck) ==
    IF found_recipient_info = <<>> THEN Raised("AttributeNotFound", <<>>)
    ELSE unwrapped(enveloped_data,
                   rsa_decrypt(private_key, found_recipient_info[1].encrypted_key, luck),
                   options, luck,
                   << [call |-> "decrypt", data |-> found_recipient_info[1].encrypted_key] >>)

deserialize_and_decrypt(data, certificate, private_key, options, luck) ==
    IF ~data.wellformed THEN Panicked(<<>>)
    ELSE IF data.content = "EnvelopedData"
    THEN with_recipient(data, find(data.recipient_infos, certificate.serial),
                        private_key, options, luck)
    ELSE Raised("UnsupportedAlgorithm", <<>>)

-----------------------------------------------------------------------------
(* The envelope run: a payload is encrypted to some recipients, the message *)
(* may be altered on its way, and somebody decrypts what arrives.           *)

MaxRecipients == 2

\* Mallory's certificate has the serial number of Alice's, from another issuer
Alice == [issuer |-> "I1", serial |-> 1, public_key |-> "kA"]
Bob == [issuer |-> "I1", serial |-> 2, public_key |-> "kB"]
Mallory == [issuer |-> "I2", serial |-> 1, public_key |-> "kM"]

Recipients == { Alice, Bob, Mallory }
PrivateKeys == { "kA", "kB" }

Payloads ==
    { <<>>, << "a" >>, << "a", LF >>, << "a", CR >>, << CR, LF >>, << LF, "a", CR, LF >>,
      Header \o << "a" >> }

OptionSets == SUBSET { PKCS7_TEXT, PKCS7_BINARY }

\* what may happen to a message before it is decrypted
Alterations ==
    { "not_content_info", "data", "signed_data", "aes192", "aes256", "no_encrypted_content" }

Altered(m, how) ==
    CASE how = "not_content_info" -> [m EXCEPT !.wellformed = FALSE]
      [] how = "data" -> [m EXCEPT !.content = "Data"]
      [] how = "signed_data" -> [m EXCEPT !.content = "SignedData"]
      [] how = "aes192" -> [m EXCEPT !.content_encryption_algorithm.params = "Aes192Cbc"]
      [] how = "aes256" -> [m EXCEPT !.content_encryption_algorithm.params = "Aes256Cbc"]
      [] how = "no_encrypted_content" -> [m EXCEPT !.encrypted_content = <<>>]

InitEnvelope ==
    /\ policy = DefaultPolicy
    /\ fn = "none"
    /\ arg \in [data : Payloads, options : OptionSets,
                recipients : Arrangements(Recipients, MaxRecipients) \ { <<>> }]
    /\ out = None
    /\ PolicyIdle
    /\ ChainIdle

EncryptAndSerialize ==
    /\ fn = "none"
    /\ fn' = "encrypt_and_serialize"
    /\ \E wire \in encrypt_and_serialize(arg.data, arg.recipients, arg.options, "key", "iv") :
          out' = [wire |-> wire]
    /\ UNCHANGED <<policy, policyVars, chainVars, arg>>

Alter ==
    /\ fn = "encrypt_and_serialize"
    /\ fn' = "altered"
    /\ \E how \in Alterations : out' = [wire |-> Altered(out.wire, how)]
    /\ UNCHANGED <<policy, policyVars, chainVars, arg>>

DeserializeAndDecrypt ==
    /\ fn \in { "encrypt_and_serialize", "altered" }
    /\ fn' = "deserialize_and_decrypt"
    /\ \E certificate \in Recipients, private_key \in PrivateKeys, options \in OptionSets,
          luck \in { "fails", "garbage" } :
          out' = [wire |-> out.wire,
                  altered |-> fn = "altered",
                  certificate |-> certificate,
                  private_key |-> private_key,
                  options |-> options,
                  result |-> deserialize_and_decrypt(out.wire, certificate, private_key,
                                                     options, luck)]
    /\ UNCHANGED <<policy, policyVars, chainVars, arg>>

NextEnvelope == EncryptAndSerialize \/ Alter \/ DeserializeAndDecrypt

SpecEnvelope == InitEnvelope /\ [][NextEnvelope]_vars

-----------------------------------------------------------------------------
(* Properties of the envelope run *)

Decrypting == fn = "deserialize_and_decrypt"

IsEnveloped == out.wire.wellformed /\ out.wire.content = "EnvelopedData"

\* the places, in the encoding, of the RecipientInfos with the caller's serial
SerialMatches ==
    { i \in 1..Len(out.wire.recipient_infos) :
        out.wire.recipient_infos[i].issuer_and_serial_number.serial_number
            = out.certificate.serial }

FirstMatch == out.wire.recipient_infos[CHOOSE i \in SerialMatches : \A j \in SerialMatches : i <= j]

Called(name) == \E i \in 1..Len(out.result.calls) : out.result.calls[i].call = name

FailedWith(err) == out.result.kind = "Err" /\ out.result.err = err

\* C24: deserialize_and_decrypt takes the first RecipientInfo, in the order of
\* the encoding, whose serial number is that of the caller's certificate,
\* whatever its issuer; if there is none it fails with AttributeNotFound and
\* calls neither the private key nor the cipher.
C24_RecipientBySerial ==
    Decrypting /\ IsEnveloped =>
        /\ SerialMatches = {} => FailedWith("AttributeNotFound") /\ out.result.calls = <<>>
        /\ SerialMatches # {} =>
              /\ out.result.calls # <<>>
              /\ out.result.calls[1] = [call |-> "decrypt", data |-> FirstMatch.encrypted_key]

\* two RecipientInfos have the serial and the first, of another issuer than
\* the caller's certificate, is the one whose key is unwrapped
C24_Witness ==
    /\ Decrypting /\ IsEnveloped
    /\ Cardinality(SerialMatches) = 2
    /\ FirstMatch.issuer_and_serial_number.issuer # out.certificate.issuer
    /\ out.result.calls[1].data = FirstMatch.encrypted_key

OtherAlgorithm == out.wire.content_encryption_algorithm.params # "Aes128Cbc"

\* C25 as claimed: a ContentInfo that is not EnvelopedData, and an
\* EnvelopedData whose content encryption is not AES-128-CBC, fail with
\* UnsupportedAlgorithm, and the cipher is never called.
C25_AsClaimed ==
    Decrypting /\ out.wire.wellformed /\ (~IsEnveloped \/ OtherAlgorithm) =>
        FailedWith("UnsupportedAlgorithm") /\ ~Called("symmetric_decrypt")

\* C25 amended: a ContentInfo that is not EnvelopedData fails with
\* UnsupportedAlgorithm before anything is called; an EnvelopedData whose
\* content encryption is not AES-128-CBC yields no plaintext and never reaches
\* the cipher, and fails with AttributeNotFound when no RecipientInfo has the
\* serial, with the error of the key unwrapping when that fails, and with
\* UnsupportedAlgorithm otherwise.
C25_Unsupported ==
    Decrypting /\ out.wire.wellformed =>
        /\ ~IsEnveloped => FailedWith("UnsupportedAlgorithm") /\ out.result.calls = <<>>
        /\ IsEnveloped /\ OtherAlgorithm =>
              /\ out.result.kind = "Err"
              /\ ~Called("symmetric_decrypt")
              /\ SerialMatches = {} => FailedWith("AttributeNotFound")
              /\ SerialMatches # {} =>
                    /\ out.result.err \in { "ValueError", "UnsupportedAlgorithm" }
                    /\ FirstMatch.encrypted_key.to = out.private_key
                          => FailedWith("UnsupportedAlgorithm")
                    /\ FailedWith("ValueError")
                          => FirstMatch.encrypted_key.to # out.private_key

\* an AES-256-CBC message for the caller: the key is unwrapped, then refused
C25_Witness ==
    /\ Decrypting /\ IsEnveloped
    /\ out.wire.content_encryption_algorithm.params = "Aes256Cbc"
    /\ FailedWith("UnsupportedAlgorithm")
    /\ Called("decrypt") /\ ~Called("symmetric_decrypt")

\* C26: whatever arrives, deserialize_and_decrypt returns a value or an error
\* and does not panic.
C26_NoPanic == Decrypting => out.result.kind # "Panic"

\* the message is as encrypt_and_serialize wrote it and is decrypted under the
\* options it was encrypted under
SameOptions == Decrypting /\ ~out.altered /\ out.options = arg.options

NotARecipient ==
    \A i \in 1..Len(arg.recipients) : arg.recipients[i].serial # out.certificate.serial

\* the caller's certificate is the one recipient with its serial, and the
\* private key is its own
TheRecipient ==
    /\ \E i \in 1..Len(arg.recipients) : arg.recipients[i] = out.certificate
    /\ \A i \in 1..Len(arg.recipients) :
          arg.recipients[i].serial = out.certificate.serial
              => arg.recipients[i] = out.certificate
    /\ out.private_key = out.certificate.public_key

\* C27 as claimed: decrypting with a certificate of another serial fails with
\* AttributeNotFound; decrypting with the recipient's certificate and key
\* returns the payload as it was, for every payload and option set.
C27_AsClaimed ==
    SameOptions =>
        /\ NotARecipient => FailedWith("AttributeNotFound")
        /\ TheRecipient => out.result.kind = "Ok" /\ out.result.value = arg.data

\* C27 amended: decrypting with a certificate of another serial fails with
\* AttributeNotFound; decrypting with the recipient's certificate and key
\* returns the payload as it was when BINARY is set or no carriage return of
\* the payload is followed by a line feed, and otherwise the payload with LF
\* for every pair CR LF.
C27_RoundTrip ==
    SameOptions =>
        /\ NotARecipient => FailedWith("AttributeNotFound")
        /\ TheRecipient =>
              /\ out.result.kind = "Ok"
              /\ out.result.value = IF PKCS7_BINARY \in out.options
                                    THEN arg.data
                                    ELSE WithLf(arg.data)
              /\ out.result.value = arg.data
                    <=> (PKCS7_BINARY \in out.options \/ NoCrLf(arg.data))

\* a text payload with a bare line feed comes back from text mode
C27_Witness ==
    /\ SameOptions /\ TheRecipient
    /\ out.options = { PKCS7_TEXT }
    /\ \E i \in 1..Len(arg.data) : BareLfAt(arg.data, i)
    /\ out.result.kind = "Ok" /\ out.result.value = arg.data

-----------------------------------------------------------------------------
(* PKCS#7 SignedData.  A signature is the record of what was signed, by     *)
(* which key and how; a digest is the record of what was hashed.  The DER   *)
(* encoding of a SET OF is determined by the set of its elements.           *)

PKCS7_NO_ATTRIBUTES == "NoAttributes"
PKCS7_NO_CAPABILITIES == "NoCapabilities"
PKCS7_DETACHED_SIGNATURE == "DetachedSignature"
PKCS7_NO_CERTS == "NoCerts"

PKCS7_DATA_OID == "pkcs7-data"
PKCS7_CONTENT_TYPE_OID == "contentType"
PKCS7_MESSAGE_DIGEST_OID == "messageDigest"
PKCS7_SIGNING_TIME_OID == "signingTime"
PKCS7_SMIME_CAP_OID == "smimeCapabilities"
AES_256_CBC_OID == "aes256-CBC"
AES_192_CBC_OID == "aes192-CBC"
AES_128_CBC_OID == "aes128-CBC"

\* x509::certificate::time_from_datetime: the Time that encodes the instant
time_from_datetime(dt) == [time |-> dt]

\* x509::ocsp::hash_data
hash_data(hash_alg, data) == [digest |-> hash_alg, of |-> data]

\* x509::sign::sign_data
sign_data(private_key, hash_alg, rsa_padding, data) ==
    [ by |-> private_key.name,
      how |-> CASE private_key.type \in { "Ed25519", "Ed448" } -> << >>
                [] private_key.type = "Ec" -> << "ECDSA", hash_alg >>
                [] private_key.type = "Rsa" ->
                      << IF rsa_padding = None THEN "PKCS1v15" ELSE rsa_padding, hash_alg >>
                [] private_key.type = "Dsa" -> << hash_alg >>,
      over |-> data ]

\* x509::sign::compute_signature_algorithm, for the keys and hashes of the model
compute_signature_algorithm(private_key, hash_alg, rsa_padding) ==
    IF rsa_padding = "PSS" THEN "RsaPss:" \o hash_alg
    ELSE IF private_key.type = "Ec" THEN "EcDsaWith:" \o hash_alg
    ELSE "RsaWith:" \o hash_alg \o "+NULL"

compute_pkcs7_signature_algorithm(private_key, hash_alg, rsa_padding) ==
    IF private_key.type = "Rsa" /\ rsa_padding # "PSS"
    THEN "Rsa+NULL"
    ELSE compute_signature_algorithm(private_key, hash_alg, rsa_padding)

\* an Attribute with one value
Attribute(type_id, value) == [type_id |-> type_id, values |-> { value }]

\* smime_cap_bytes: a SEQUENCE OF of one SEQUENCE OF for each algorithm
smime_cap == << << AES_256_CBC_OID >>, << AES_192_CBC_OID >>, << AES_128_CBC_OID >> >>

\* asn1::write_single(&asn1::SetOfWriter::new(..))
write_set_of(elements) ==
    [der |-> "SET OF", elements |-> { elements[i] : i \in 1..Len(elements) }]

\* (data_with_header, data_without_header) of sign_and_serialize
data_to_sign(raw_data, options) ==
    IF PKCS7_BINARY \in options
    THEN [with_header |-> raw_data, without_header |-> raw_data]
    ELSE smime_canonicalize(raw_data, PKCS7_TEXT \in options)

\* the vector authenticated_attrs
authenticated_attrs(hash_alg, data_with_header, options, now) ==
    << Attribute(PKCS7_CONTENT_TYPE_OID, PKCS7_DATA_OID),
       Attribute(PKCS7_SIGNING_TIME_OID, time_from_datetime(now)),
       Attribute(PKCS7_MESSAGE_DIGEST_OID, hash_data(hash_alg, data_with_header)) >>
    \o IF PKCS7_NO_CAPABILITIES \notin options
       THEN << Attribute(PKCS7_SMIME_CAP_OID, smime_cap) >>
       ELSE <<>>

\* (authenticated_attrs, signature) that signs the data beside the attributes
signed_attrs_beside_data(signer, data_with_header, attrs, options) ==
    [ authenticated_attributes |->
          IF PKCS7_NO_ATTRIBUTES \in options THEN <<>> ELSE << attrs >>,
      signature |-> sign_data(signer.private_key, signer.hash_alg, signer.rsa_padding,
                              data_with_header) ]

\* (authenticated_attrs, signature): None as <<>>, Some(attrs) as << attrs >>
signed_attrs(signer, data_with_header, attrs, options) ==
    IF PKCS7_NO_ATTRIBUTES \in options
    THEN [ authenticated_attributes |-> <<>>,
           signature |-> sign_data(signer.private_key, signer.hash_alg, signer.rsa_padding,
                                   data_with_header) ]
    ELSE [ authenticated_attributes |-> << attrs >>,
           signature |-> sign_data(signer.private_key, signer.hash_alg, signer.rsa_padding,
                                   write_set_of(attrs)) ]

\* the SignerInfo pushed for a signer
signer_info(signer, signed) ==
    [ version |-> 1,
      issuer_and_serial_number |->
          [issuer |-> signer.cert.issuer, serial_number |-> signer.cert.serial],
      digest_algorithm |-> signer.hash_alg,
      authenticated_attributes |-> signed.authenticated_attributes,
      digest_encryption_algorithm |->
          compute_pkcs7_signature_algorithm(signer.private_key, signer.hash_alg,
                                            signer.rsa_padding),
      encrypted_digest |-> signed.signature,
      unauthenticated_attributes |-> <<>> ]

\* digest_algs: each signer's digest algorithm, pushed unless it is there
RECURSIVE digest_algs(_)
digest_algs(signers) ==
    IF signers = <<>> THEN <<>>
    ELSE IF \E i \in 1..(Len(signers) - 1) : signers[i].hash_alg = signers[Len(signers)].hash_alg
    THEN digest_algs(SubSeq(signers, 1, Len(signers) - 1))
    ELSE Append(digest_algs(SubSeq(signers, 1, Len(signers) - 1)),
                signers[Len(signers)].hash_alg)

\* the SignedData in its ContentInfo, and the body that S/MIME puts beside it;
\* digest_algorithms, certificates and signer_infos are the vectors handed to
\* the SET OF writers, in the order of the signers
sign_and_serialize(raw_data, signers, additional_certs, options, now) ==
    [ content |-> "SignedData",
      version |-> 1,
      digest_algorithms |-> digest_algs(signers),
      content_info |->
          IF PKCS7_DETACHED_SIGNATURE \in options THEN <<>>
          ELSE << data_to_sign(raw_data, options).with_header >>,
      certificates |->
          IF PKCS7_NO_CERTS \in options THEN <<>>
          ELSE << additional_certs \o [i \in 1..Len(signers) |-> signers[i].cert] >>,
      signer_infos |->
          [i \in 1..Len(signers) |->
              signer_info(signers[i],
                  signed_attrs(signers[i], data_to_sign(raw_data, options).with_header,
                      authenticated_attrs(signers[i].hash_alg,
                                          data_to_sign(raw_data, options).with_header,
                                          options, now),
                      options))],
      smime_body |-> data_to_sign(raw_data, options).without_header ]

-----------------------------------------------------------------------------
(* The signing run: a payload is signed by some signers.                    *)

MaxSigners == 2

Signers ==
    { [cert |-> Alice, private_key |-> [type |-> "Rsa", name |-> "kA"],
       hash_alg |-> "sha256", rsa_padding |-> "PKCS1v15"],
      [cert |-> Bob, private_key |-> [type |-> "Ec", name |-> "kB"],
       hash_alg |-> "sha384", rsa_padding |-> None],
      [cert |-> Mallory, private_key |-> [type |-> "Rsa", name |-> "kM"],
       hash_alg |-> "sha256", rsa_padding |-> "PSS"] }

SignOptions ==
    SUBSET { PKCS7_TEXT, PKCS7_BINARY, PKCS7_NO_ATTRIBUTES, PKCS7_NO_CAPABILITIES,
             PKCS7_DETACHED_SIGNATURE, PKCS7_NO_CERTS }

InitSign ==
    /\ policy = DefaultPolicy
    /\ fn = "none"
    /\ arg \in [data : { << "a" >>, << "a", LF >>, << CR, LF, LF >> },
                options : SignOptions,
                signers : Arrangements(Signers, MaxSigners) \ { <<>> },
                additional_certs : { <<>>, << Bob >> },
                now : { 1, 5 }]
    /\ out = None
    /\ PolicyIdle
    /\ ChainIdle

SignAndSerialize ==
    /\ fn = "none"
    /\ fn' = "sign_and_serialize"
    /\ out' = sign_and_serialize(arg.data, arg.signers, arg.additional_certs,
                                 arg.options, arg.now)
    /\ UNCHANGED <<policy, policyVars, chainVars, arg>>

NextSign == SignAndSerialize

SpecSign == InitSign /\ [][NextSign]_vars

-----------------------------------------------------------------------------
(* Properties of the signing run *)

\* what is hashed and signed: the payload as it is under BINARY, and else
\* with CR LF line ends, behind the header under TEXT
DataWithHeader ==
    IF PKCS7_BINARY \in arg.options THEN arg.data
    ELSE IF PKCS7_TEXT \in arg.options THEN Header \o WithCrLf(arg.data)
    ELSE WithCrLf(arg.data)

ContentTypeAttribute == [type_id |-> "contentType", values |-> { "pkcs7-data" }]

SigningTimeAttribute ==
    [type_id |-> "signingTime",
     values |-> { [time |-> arg.now] }]

MessageDigestAttribute(k) ==
    [type_id |-> "messageDigest",
     values |-> { [digest |-> arg.signers[k].hash_alg, of |-> DataWithHeader] }]

CapabilitiesAttribute ==
    [type_id |-> "smimeCapabilities",
     values |-> { << << "aes256-CBC" >>, << "aes192-CBC" >>, << "aes128-CBC" >> >> }]

AttributesOf(k) ==
    IF PKCS7_NO_CAPABILITIES \in arg.options
    THEN << ContentTypeAttribute, SigningTimeAttribute, MessageDigestAttribute(k) >>
    ELSE << ContentTypeAttribute, SigningTimeAttribute, MessageDigestAttribute(k),
            CapabilitiesAttribute >>

\* C28: for every signer, authenticatedAttributes is absent iff NO_ATTRIBUTES
\* is set, and then the signature is over data_with_header; otherwise the
\* attributes are contentType = Data, signingTime = now and messageDigest =
\* H(data_with_header), followed by smimeCapabilities (AES-256, AES-192,
\* AES-128 CBC, in that order) iff NO_CAPABILITIES is not set, and the
\* signature is over the DER encoding of the SET OF these attributes.
C28_SignedAttributes ==
    fn = "sign_and_serialize" =>
        /\ Len(out.signer_infos) = Len(arg.signers)
        /\ \A k \in 1..Len(arg.signers) :
              /\ out.signer_infos[k].encrypted_digest.by = arg.signers[k].private_key.name
              /\ out.signer_infos[k].authenticated_attributes = <<>>
                    <=> PKCS7_NO_ATTRIBUTES \in arg.options
              /\ PKCS7_NO_ATTRIBUTES \in arg.options
                    => out.signer_infos[k].encrypted_digest.over = DataWithHeader
              /\ PKCS7_NO_ATTRIBUTES \notin arg.options
                    => /\ out.signer_infos[k].authenticated_attributes = << AttributesOf(k) >>
                       /\ out.signer_infos[k].encrypted_digest.over
                             = [der |-> "SET OF",
                                elements |-> { AttributesOf(k)[i] :
                                                 i \in 1..Len(AttributesOf(k)) }]

\* two signers in text mode, each with the four attributes, signed as a set
C28_Witness ==
    /\ fn = "sign_and_serialize"
    /\ Len(arg.signers) = 2
    /\ arg.options = { PKCS7_TEXT }
    /\ \A k \in 1..2 :
          /\ Len(out.signer_infos[k].authenticated_attributes[1]) = 4
          /\ out.signer_infos[k].encrypted_digest.over.der = "SET OF"

-----------------------------------------------------------------------------
(* The forms of an AlgorithmIdentifier that differ from an allowed one only *)
(* in the presence of the NULL parameter.                                   *)

LegacyForms ==
    { "EcDsaWithSha256+NULL", "EcDsaWithSha384+NULL", "EcDsaWithSha512+NULL",
      "RsaWithSha256", "RsaWithSha384", "RsaWithSha512" }

LegacyChild == op = "valid_issuer" /\ child.signature_alg \in LegacyForms

\* C30 as claimed: a child whose signatureAlgorithm is ECDSA with the NULL
\* parameter, or RSA PKCS#1 v1.5 without it, is not in
\* permitted_signature_algorithms and valid_issuer rejects it as a forbidden
\* signature algorithm.
C30_AsClaimed ==
    LegacyChild =>
        /\ child.signature_alg \notin policy.permitted_signature_algorithms
        /\ res = ErrForbiddenSig

\* C30 amended: membership in permitted_signature_algorithms is equality on
\* the whole AlgorithmIdentifier, so none of the six legacy forms is a member
\* under the default policy; valid_issuer never accepts a child signed with
\* one, and rejects it as a forbidden signature algorithm when the issuer
\* passes permits_ca and the child's SPKI algorithm is permitted, the earlier
\* checks' errors coming first otherwise.
C30_StructuralEquality ==
    /\ LegacyForms \cap policy.permitted_signature_algorithms = {}
    /\ LegacyChild =>
          /\ child.signature_alg \notin policy.permitted_signature_algorithms
          /\ res # Ok
          /\ ops_calls = <<>>
          /\ (IssuerPermitted /\ ChildKeyPermitted) => res = ErrForbiddenSig
          /\ ~IssuerPermitted => res = permits_ca(policy, cert, depth, cert.exts)

\* C30 witness: an RSA signature algorithm without NULL, under a permitted
\* issuer, was rejected as forbidden
C30_Witness ==
    /\ LegacyChild
    /\ child.signature_alg = "RsaWithSha256"
    /\ IssuerPermitted /\ ChildKeyPermitted
    /\ res = ErrForbiddenSig

====
